---- MODULE Spec2Model ----
(***************************************************************************)
(* Model of the md2png library renderer (src/md2png.go, package md2png):   *)
(* the line wrapper, the token-line composer, the list layout state and    *)
(* the block renderer's tree walk.                                         *)
(*                                                                         *)
(* Strings are sequences of one-character strings.  Point sizes are kept   *)
(* in hundredths of a point (size100) and measured widths in hundredths of *)
(* a pixel, so that the float expressions of the source (size*0.95,        *)
(* int(size*1.5+0.5), width*size/base) are computed on integers.           *)
(***************************************************************************)
EXTENDS Integers, Sequences, FiniteSets, TLC

\* ---- bounds of the model ----
MaxLen == 4          \* longest text handed to wrapLines
MaxBlocks == 2       \* leaf blocks (heading, paragraph, code, ...) of a document
MaxNodes == 6        \* nodes of a document below the root
MaxLists == 3        \* lists of a document
MaxItems == 3        \* list items of a document
MaxCols == 2         \* cells of a table row
MaxRows == 2         \* body rows of a table
MaxRefs == 3         \* links and images of a document
MaxTwice == 5        \* nodes below the root of a document that is rendered twice
MaxDraw == 4         \* tokens handed to a drawTokens call on its own

\* ---- characters ----
LF == "\n"
CR == "\r"
Alphabet == {"a", "b", " ", LF, CR}

\* unicode.IsSpace on the characters of the alphabet
IsSpace(ch) == ch \in {" ", LF, CR, "\t"}

RECURSIVE Flatten(_)
Flatten(ss) == IF ss = <<>> THEN <<>> ELSE Head(ss) \o Flatten(Tail(ss))

\* int(x * num/den) for x >= 0: Go's float-to-int conversion truncates
IntMul(x, num, den) == (x * num) \div den

\* ---- Metrics ----
\* advance of one glyph, in pixels, of a face rasterised at its base size
GlyphAdvance(fnt, ch) ==
    IF fnt = "mono" THEN 10
    ELSE IF fnt = "bold" THEN (IF IsSpace(ch) THEN 6 ELSE 11)
    ELSE (IF IsSpace(ch) THEN 5 ELSE 10)

RECURSIVE MeasureString(_, _)
MeasureString(fnt, s) ==
    IF s = <<>> THEN 0 ELSE GlyphAdvance(fnt, Head(s)) + MeasureString(fnt, Tail(s))

\* the tail of measureWidth: the measured width, in px at the face's base size
\* base100, scaled to size100; the result is in 1/100 px
ScaledWidth(width, base100, size100) ==
    LET base == IF base100 <= 0 THEN (IF size100 <= 0 THEN 100 ELSE size100) ELSE base100
        size == IF size100 <= 0 THEN base ELSE size100
    IN IF size # base THEN (width * 100 * size) \div base ELSE width * 100

\* measureWidth: width in 1/100 px of s drawn at size100 with a face whose
\* base size is base100; 0 for a nil font or an empty string
measureWidth(fnt, base100, size100, s) ==
    IF fnt = "nil" \/ s = <<>> THEN 0
    ELSE ScaledWidth(MeasureString(fnt, s), base100, size100)

\* ---- Line Wrapper ----
\* strings.Builder contents of splitTextPreserveSpaces, one rune at a time
RECURSIVE SplitRunes(_, _, _, _)
SplitRunes(s, parts, current, lastType) ==
    IF s = <<>>
    THEN IF Len(current) > 0 THEN Append(parts, current) ELSE parts
    ELSE LET r   == Head(s)
             typ == IF IsSpace(r) THEN 1 ELSE 2
         IN IF lastType = 0 THEN SplitRunes(Tail(s), parts, Append(current, r), typ)
            ELSE IF typ = lastType THEN SplitRunes(Tail(s), parts, Append(current, r), lastType)
            ELSE SplitRunes(Tail(s), Append(parts, current), <<r>>, typ)

splitTextPreserveSpaces(s) == IF s = <<>> THEN <<>> ELSE SplitRunes(s, <<>>, <<>>, 0)

\* bufio.ScanLines: a line ends at "\n"; one trailing "\r" of a line is
\* dropped (also of the last, unterminated line); no line after a final "\n"
dropCR(data) ==
    IF Len(data) > 0 /\ data[Len(data)] = CR THEN SubSeq(data, 1, Len(data) - 1) ELSE data

\* bufio.MaxScanTokenSize: the scanner of wrapLines keeps its default buffer,
\* Scan returns false at a line that does not fit, and wrapLines does not
\* look at scanner.Err()
MaxScanTokenSize == 65536

RECURSIVE ScanLines(_, _)
ScanLines(data, cur) ==
    IF Len(cur) >= MaxScanTokenSize THEN <<>>
    ELSE IF data = <<>>
    THEN IF cur = <<>> THEN <<>> ELSE <<dropCR(cur)>>
    ELSE IF Head(data) = LF
         THEN <<dropCR(cur)>> \o ScanLines(Tail(data), <<>>)
         ELSE ScanLines(Tail(data), Append(cur, Head(data)))

\* the token loop of wrapLines for one hard line
RECURSIVE WrapTokens(_, _, _, _, _, _, _)
WrapTokens(tokens, ff, base100, size100, maxWidth, builder, width) ==
    IF tokens = <<>> THEN <<builder>>
    ELSE LET tok == Head(tokens)
             w   == measureWidth(ff, base100, size100, tok)
         IN IF tok = <<>> THEN WrapTokens(Tail(tokens), ff, base100, size100, maxWidth, builder, width)
            ELSE IF width + w > maxWidth * 100 /\ Len(builder) > 0
                 THEN <<builder>> \o WrapTokens(Tail(tokens), ff, base100, size100, maxWidth, tok, w)
                 ELSE WrapTokens(Tail(tokens), ff, base100, size100, maxWidth, builder \o tok, width + w)

RECURSIVE WrapHardLines(_, _, _, _, _)
WrapHardLines(lns, ff, base100, size100, maxWidth) ==
    IF lns = <<>> THEN <<>>
    ELSE LET ln == Head(lns)
             out == IF ln = <<>> THEN << <<>> >>
                    ELSE WrapTokens(splitTextPreserveSpaces(ln), ff, base100, size100, maxWidth, <<>>, 0)
         IN out \o WrapHardLines(Tail(lns), ff, base100, size100, maxWidth)

wrapLines(ff, base100, size100, text, maxWidth) ==
    WrapHardLines(ScanLines(text, <<>>), ff, base100, size100, maxWidth)

\* ---- Tokens ----
\* history tag of a token: what it stands for and, for a marker, the item
Tag(t, id) == [t |-> t, id |-> id]

\* textToken; tag is a history field (what the token stands for), not in the source
TextTok(text, fnt, size100, color, underline, tag) ==
    [text |-> text, font |-> fnt, size |-> size100, color |-> color,
     newline |-> FALSE, underline |-> underline, tag |-> tag]

NewlineTok ==
    [text |-> <<>>, font |-> "nil", size |-> 0, color |-> "none",
     newline |-> TRUE, underline |-> FALSE, tag |-> Tag("break", 0)]

\* ---- Canvas: drawTokens ----
\* int(size*1.5 + 0.5) on a size in hundredths of a point
LineHeightOf(size100) == (size100 * 15 + 500) \div 1000

\* flush that leaves the cursor alone when a forced break meets an empty line
flush_NoBlank(st, force, left, ptSize100) ==
    IF Len(st.line) = 0
    THEN st
    ELSE LET baselineSize == IF st.lineMaxSize = 0 THEN ptSize100 ELSE st.lineMaxSize
             baseline     == st.cursorY + (baselineSize \div 100)
             l0           == (baselineSize * 15 + 500) \div 1000
             lineHeight   == IF l0 <= 0 THEN (ptSize100 * 15 + 500) \div 1000 ELSE l0
         IN [st EXCEPT !.painted = Append(st.painted,
                                          [y |-> st.cursorY, baseline |-> baseline, left |-> left,
                                           height |-> lineHeight, width |-> st.lineWidth,
                                           words |-> st.line]),
                       !.cursorY = st.cursorY + lineHeight,
                       !.assigns = Append(st.assigns, st.cursorY + lineHeight),
                       !.line = <<>>, !.lineWidth = 0, !.lineMaxSize = 0]

\* the closure flush(force) of drawTokens; st is the state of the enclosing
\* call: pending line, its width and largest size, the cursor, and history
\* (the lines painted and every value assigned to cursorY)
flush(st, force, left, ptSize100) ==
    IF Len(st.line) = 0
    THEN IF force
         THEN LET heightSize == IF st.lineMaxSize = 0 THEN ptSize100 ELSE st.lineMaxSize
                  h0         == LineHeightOf(heightSize)
                  height     == IF h0 <= 0 THEN LineHeightOf(ptSize100) ELSE h0
              IN [st EXCEPT !.cursorY = st.cursorY + height,
                            !.assigns = Append(st.assigns, st.cursorY + height)]
         ELSE st
    ELSE LET baselineSize == IF st.lineMaxSize = 0 THEN ptSize100 ELSE st.lineMaxSize
             baseline     == st.cursorY + (baselineSize \div 100)
             l0           == LineHeightOf(baselineSize)
             lineHeight   == IF l0 <= 0 THEN LineHeightOf(ptSize100) ELSE l0
         IN [st EXCEPT !.painted = Append(st.painted,
                                          [y |-> st.cursorY, baseline |-> baseline, left |-> left,
                                           height |-> lineHeight, width |-> st.lineWidth,
                                           words |-> st.line]),
                       !.cursorY = st.cursorY + lineHeight,
                       !.assigns = Append(st.assigns, st.cursorY + lineHeight),
                       !.line = <<>>, !.lineWidth = 0, !.lineMaxSize = 0]

styledWord(seg, fnt, tok) ==
    [text |-> seg, font |-> fnt, size |-> tok.size, color |-> tok.color,
     underline |-> tok.underline, tag |-> tok.tag]

MaxOf(a, b) == IF a > b THEN a ELSE b

\* the segment loop body without the test for the right edge
PlaceSegment_NoWrap(seg, segWidth, tok, fnt, st, left, right, cv) ==
    LET add(s) == [s EXCEPT !.line = Append(s.line, styledWord(seg, fnt, tok)),
                            !.lineMaxSize = MaxOf(s.lineMaxSize, tok.size),
                            !.lineWidth = s.lineWidth + segWidth]
    IN IF IsSpace(seg[1])
       THEN IF Len(st.line) = 0 THEN st ELSE add(st)
       ELSE add(st)

\* one pass of the loop over the segments of a token: the non-empty segment
\* seg, measured as segWidth, is dropped, appended or wrapped to a new line
PlaceSegment(seg, segWidth, tok, fnt, st, left, right, cv) ==
    LET add(s) == [s EXCEPT !.line = Append(s.line, styledWord(seg, fnt, tok)),
                            !.lineMaxSize = MaxOf(s.lineMaxSize, tok.size),
                            !.lineWidth = s.lineWidth + segWidth]
    IN IF IsSpace(seg[1])
       THEN IF Len(st.line) = 0 THEN st ELSE add(st)
       ELSE IF st.lineWidth + segWidth > (right - left) * 100 /\ Len(st.line) > 0
            THEN add(flush(st, FALSE, left, cv.ptSize))
            ELSE add(st)

\* the loop over the segments of one token
RECURSIVE DrawSegments(_, _, _, _, _, _, _)
DrawSegments(segs, tok, fnt, st, left, right, cv) ==
    IF segs = <<>> THEN st
    ELSE LET seg == Head(segs)
         IN IF seg = <<>> THEN DrawSegments(Tail(segs), tok, fnt, st, left, right, cv)
            ELSE DrawSegments(Tail(segs), tok, fnt,
                              PlaceSegment(seg, measureWidth(fnt, cv.fontBase, tok.size, seg),
                                           tok, fnt, st, left, right, cv),
                              left, right, cv)

\* one pass of the loop over the tokens: a forced break flushes, a text
\* token is split and its segments placed
DrawOneToken(tok, st, left, right, cv) ==
    LET fnt == IF tok.font = "nil" THEN "regular" ELSE tok.font
    IN IF tok.newline
       THEN flush(st, TRUE, left, cv.ptSize)
       ELSE DrawSegments(splitTextPreserveSpaces(tok.text), tok, fnt, st, left, right, cv)

RECURSIVE DrawTokenLoop(_, _, _, _, _)
DrawTokenLoop(tokens, st, left, right, cv) ==
    IF tokens = <<>> THEN st
    ELSE DrawTokenLoop(Tail(tokens), DrawOneToken(Head(tokens), st, left, right, cv),
                       left, right, cv)

\* the locals of drawTokens at its start, with the cursor at y
NoLine(y) ==
    [line |-> <<>>, lineWidth |-> 0, lineMaxSize |-> 0,
     cursorY |-> y, painted |-> <<>>, assigns |-> <<>>]

\* drawTokens on a canvas cv = [w, margin, ptSize, fontBase] with cursor y;
\* the result holds the new cursor, the painted lines and the assignments
drawTokens(tokens, left, right, cv, y) ==
    IF Len(tokens) = 0 THEN NoLine(y)
    ELSE flush(DrawTokenLoop(tokens, NoLine(y), left, right, cv), FALSE, left, cv.ptSize)

\* ---- Renderer state threaded through one handler ----
\* R = [cursorY, listStack, itemStack, paints, assigns]; paints (everything
\* painted so far) and assigns (the values this handler assigned to cursorY,
\* in order) are history

\* one paint record per painted word of the lines drawTokens painted
RECURSIVE WordPaints(_, _, _)
WordPaints(words, ln, items) ==
    IF words = <<>> THEN <<>>
    ELSE << [kind |-> "word", y |-> ln.y, left |-> ln.left, text |-> Head(words).text,
             color |-> Head(words).color, font |-> Head(words).font, size |-> Head(words).size,
             tag |-> Head(words).tag, items |-> items] >>
         \o WordPaints(Tail(words), ln, items)

RECURSIVE LinePaints(_, _)
LinePaints(painted, items) ==
    IF painted = <<>> THEN <<>>
    ELSE WordPaints(Head(painted).words, Head(painted), items) \o LinePaints(Tail(painted), items)

ShapePaint(kind, y, left, color, items) ==
    [kind |-> kind, y |-> y, left |-> left, text |-> <<>>, color |-> color,
     font |-> "nil", size |-> 0, tag |-> Tag("shape", 0), items |-> items]

ItemIds(itemStack) == [i \in 1..Len(itemStack) |-> itemStack[i].id]

SetCursor(R, y) == [R EXCEPT !.cursorY = y, !.assigns = Append(R.assigns, y)]

addVSpace(R, px) == SetCursor(R, R.cursorY + px)

DrawTok(R, tokens, left, right, cv) ==
    LET res == drawTokens(tokens, left, right, cv, R.cursorY)
    IN [R EXCEPT !.cursorY = res.cursorY,
                 !.assigns = R.assigns \o res.assigns,
                 !.tokens = R.tokens \o tokens,
                 !.paints = R.paints \o LinePaints(res.painted, ItemIds(R.itemStack))]

drawHRule(R, cv) ==
    LET y == R.cursorY + 4
    IN SetCursor([R EXCEPT !.paints = Append(R.paints,
                               ShapePaint("hrule", y, cv.margin, "HRule", ItemIds(R.itemStack)))],
                 y + 10)

\* int(size * 1.4)
CodeLineHeight(size100) == (size100 * 14) \div 1000

RECURSIVE CodePaints(_, _, _, _, _)
CodePaints(lines, y, left, lineHeight, items) ==
    IF lines = <<>> THEN <<>>
    ELSE << [kind |-> "codeline", y |-> y, left |-> left, text |-> Head(lines), color |-> "FG",
             font |-> "mono", size |-> 0, tag |-> Tag("content", 0), items |-> items] >>
         \o CodePaints(Tail(lines), y + lineHeight, left, lineHeight, items)

\* drawCodeBlock with the cursor set to the block's height, not to its bottom
drawCodeBlock_FromZero(R, text, left, right, size100, cv) ==
    LET pad        == 10
        lines      == wrapLines("mono", cv.fontBase, size100, text, right - left - 2 * pad)
        height     == Len(lines) * CodeLineHeight(size100) + 2 * pad + 6
    IN SetCursor([R EXCEPT !.paints = Append(R.paints,
                               ShapePaint("codebg", R.cursorY, left, "CodeBG", ItemIds(R.itemStack)))],
                 height + 6)

drawCodeBlock(R, text, left, right, size100, cv) ==
    LET pad        == 10
        top        == R.cursorY
        lines      == wrapLines("mono", cv.fontBase, size100, text, right - left - 2 * pad)
        lineHeight == CodeLineHeight(size100)
        height     == Len(lines) * lineHeight + 2 * pad + 6
        items      == ItemIds(R.itemStack)
    IN SetCursor([R EXCEPT !.paints = (R.paints \o << ShapePaint("codebg", top, left, "CodeBG", items) >>)
                                       \o CodePaints(lines, top + pad + (size100 \div 100),
                                                     left + pad, lineHeight, items)],
                 top + height + 6)

\* ---- List layout ----
\* currentListContext / currentItemContext return nil on an empty stack:
\* HasList / HasItem are the nil tests, the operators the non-nil results
HasList(R) == Len(R.listStack) > 0

HasItem(R) == Len(R.itemStack) > 0

currentListContext(R) == R.listStack[Len(R.listStack)]

currentItemContext(R) == R.itemStack[Len(R.itemStack)]

\* int(x * pct/100) for a size in hundredths of a point
IntPx(size100, pct) == (size100 * pct) \div 10000

\* pushListContext with the level counted after the push
pushListContext_OffByOne(R, list, cv, baseSize) ==
    LET markerArea == IntPx(baseSize, 280)
        indent     == cv.margin + (Len(R.listStack) + 1) * IntPx(baseSize, 180)
        ctx        == [indent |-> indent, contentLeft |-> indent + markerArea,
                       markerArea |-> markerArea, isOrdered |-> list.ordered,
                       counter |-> IF list.start <= 0 THEN 1 ELSE list.start,
                       tight |-> list.tight]
    IN addVSpace([R EXCEPT !.listStack = Append(R.listStack, ctx)], IntPx(baseSize, 30))

pushListContext(R, list, cv, baseSize) ==
    LET level      == Len(R.listStack)
        indentStep == IntPx(baseSize, 180)
        markerArea == IntPx(baseSize, 280)
        indent     == cv.margin + level * indentStep
        ctx        == [indent |-> indent, contentLeft |-> indent + markerArea,
                       markerArea |-> markerArea, isOrdered |-> list.ordered,
                       counter |-> IF list.start <= 0 THEN 1 ELSE list.start,
                       tight |-> list.tight]
    IN addVSpace([R EXCEPT !.listStack = Append(R.listStack, ctx)], IntPx(baseSize, 30))

\* popListContext that adds the spacing and leaves the context on the stack
popListContext_NoPop(R, baseSize) ==
    IF Len(R.listStack) = 0 THEN R ELSE addVSpace(R, IntPx(baseSize, 50))

popListContext(R, baseSize) ==
    IF Len(R.listStack) = 0 THEN R
    ELSE addVSpace([R EXCEPT !.listStack = SubSeq(R.listStack, 1, Len(R.listStack) - 1)],
                   IntPx(baseSize, 50))

\* fmt.Sprintf("%d", n) for n >= 0
DigitChar(d) == <<"0", "1", "2", "3", "4", "5", "6", "7", "8", "9">>[d + 1]

RECURSIVE FormatInt(_)
FormatInt(n) == IF n < 10 THEN <<DigitChar(n)>> ELSE Append(FormatInt(n \div 10), DigitChar(n % 10))

\* the bullet glyph ("*" stands for U+2022)
Bullet == <<"*">>

MarkerTag(item) == Tag("marker", item.id)

\* beginListItem without the counter++
beginListItem_NoIncrement(R, id) ==
    IF ~HasList(R) THEN R
    ELSE [R EXCEPT !.itemStack = Append(R.itemStack,
              [marker |-> IF R.listStack[Len(R.listStack)].isOrdered
                          THEN FormatInt(R.listStack[Len(R.listStack)].counter) \o <<".">>
                          ELSE Bullet,
               drawn |-> FALSE, id |-> id])]

\* id is a history field naming the item
beginListItem(R, id) ==
    LET ctx == currentListContext(R)
        n   == Len(R.listStack)
    IN IF ~HasList(R) THEN R
       ELSE IF ctx.isOrdered
            THEN [R EXCEPT !.listStack[n].counter = ctx.counter + 1,
                           !.itemStack = Append(R.itemStack,
                               [marker |-> FormatInt(ctx.counter) \o <<".">>, drawn |-> FALSE, id |-> id])]
            ELSE [R EXCEPT !.itemStack = Append(R.itemStack,
                               [marker |-> Bullet, drawn |-> FALSE, id |-> id])]

\* called with a non-nil ctx only
drawListMarker(R, item, ctx, cv, baseSize) ==
    LET start  == R.cursorY
        tokens == << TextTok(item.marker, "regular", baseSize, "FG", FALSE, MarkerTag(item)) >>
    IN SetCursor(DrawTok(R, tokens, ctx.indent, ctx.indent + ctx.markerArea, cv), start)

\* ensureListMarker without item.drawn = true
ensureListMarker_NoFlag(R, cv, baseSize) ==
    IF ~HasList(R) \/ ~HasItem(R) THEN R
    ELSE IF R.itemStack[Len(R.itemStack)].drawn THEN R
    ELSE SetCursor(DrawTok(R, << TextTok(R.itemStack[Len(R.itemStack)].marker, "regular", baseSize,
                                         "FG", FALSE, Tag("marker", R.itemStack[Len(R.itemStack)].id)) >>,
                           R.listStack[Len(R.listStack)].indent,
                           R.listStack[Len(R.listStack)].indent + R.listStack[Len(R.listStack)].markerArea,
                           cv),
                   R.cursorY)

ensureListMarker(R, cv, baseSize) ==
    LET ctx  == currentListContext(R)
        item == currentItemContext(R)
    IN IF ~HasList(R) \/ ~HasItem(R) THEN R
       ELSE IF item.drawn THEN R
       ELSE [drawListMarker(R, item, ctx, cv, baseSize) EXCEPT !.itemStack[Len(R.itemStack)].drawn = TRUE]

endListItem(R, cv, baseSize) ==
    IF Len(R.itemStack) = 0 THEN R
    ELSE LET ctx  == currentListContext(R)
             item == currentItemContext(R)
             R1   == IF HasList(R) /\ ~item.drawn
                     THEN LET Rm == drawListMarker(R, item, ctx, cv, baseSize)
                          IN SetCursor(Rm, Rm.cursorY + IntPx(baseSize, 120))
                     ELSE R
             R2   == [R1 EXCEPT !.itemStack = SubSeq(R1.itemStack, 1, Len(R1.itemStack) - 1)]
             spacing == IF HasList(R) /\ ctx.tight THEN IntPx(baseSize, 45) ELSE IntPx(baseSize, 75)
         IN addVSpace(R2, spacing)

\* the text "<warning sign> unsupported: " ("!" stands for the warning sign)
UnsupportedPrefix ==
    <<"!", " ", "u", "n", "s", "u", "p", "p", "o", "r", "t", "e", "d", ":", " ">>

\* renderUnsupportedNode painting the text in the foreground colour
renderUnsupportedNode_PlainColor(R, kind, left, cv, baseSize) ==
    addVSpace(DrawTok(R, << TextTok(UnsupportedPrefix \o kind, "regular", IntMul(baseSize, 90, 100),
                                    "FG", FALSE, Tag("warning", 0)) >>,
                      left, cv.w - cv.margin, cv),
              baseSize \div 100)

renderUnsupportedNode(R, kind, left, cv, baseSize) ==
    LET tokens == << TextTok(UnsupportedPrefix \o kind, "regular",
                             IntMul(baseSize, 90, 100), "Warning", FALSE, Tag("warning", 0)) >>
    IN addVSpace(DrawTok(R, tokens, left, cv.w - cv.margin, cv), baseSize \div 100)

\* ---- Token Collector ----
\* inline nodes: [kind, text, level, soft, kids]
TextNode(text, soft) == [kind |-> "Text", text |-> text, level |-> 0, soft |-> soft, kids |-> <<>>]
EmphasisNode(level, kids) == [kind |-> "Emphasis", text |-> <<>>, level |-> level, soft |-> FALSE, kids |-> kids]
LinkNode(kids) == [kind |-> "Link", text |-> <<>>, level |-> 0, soft |-> FALSE, kids |-> kids]
CodeSpanNode(text) == [kind |-> "CodeSpan", text |-> text, level |-> 0, soft |-> FALSE, kids |-> <<>>]
ParagraphNode(kids) == [kind |-> "Paragraph", text |-> <<>>, level |-> 0, soft |-> FALSE, kids |-> kids]
OtherInline(kids) == [kind |-> "Other", text |-> <<>>, level |-> 0, soft |-> FALSE, kids |-> kids]

\* strings.Split(text, "\n")
RECURSIVE SplitLF(_, _)
SplitLF(s, cur) ==
    IF s = <<>> THEN <<cur>>
    ELSE IF Head(s) = LF THEN <<cur>> \o SplitLF(Tail(s), <<>>)
    ELSE SplitLF(Tail(s), Append(cur, Head(s)))

RECURSIVE PartTokens(_, _, _, _, _)
PartTokens(parts, fnt, size100, color, underline) ==
    IF parts = <<>> THEN <<>>
    ELSE (IF Head(parts) # <<>>
          THEN << TextTok(Head(parts), fnt, size100, color, underline, Tag("content", 0)) >> ELSE <<>>)
         \o (IF Len(parts) > 1 THEN <<NewlineTok>> ELSE <<>>)
         \o PartTokens(Tail(parts), fnt, size100, color, underline)

\* collectInlineTokens over the children kids of a node; fonts are non-nil
RECURSIVE collectInlineTokens(_, _, _, _, _)
collectInlineTokens(kids, font, size100, color, underline) ==
    IF kids = <<>> THEN <<>>
    ELSE LET c   == Head(kids)
             fnt == IF font = "nil" THEN "regular" ELSE font
             out == CASE c.kind = "Text" ->
                            (IF c.text # <<>>
                             THEN PartTokens(SplitLF(c.text, <<>>), fnt, size100, color, underline)
                             ELSE <<>>)
                            \o (IF c.soft THEN <<NewlineTok>> ELSE <<>>)
                      [] c.kind = "Paragraph" ->
                            collectInlineTokens(c.kids, fnt, size100, color, underline)
                            \o (IF Len(kids) > 1 THEN <<NewlineTok>> ELSE <<>>)
                      [] c.kind = "Emphasis" ->
                            collectInlineTokens(c.kids, IF c.level >= 2 THEN "bold" ELSE fnt,
                                                size100, color, underline)
                      [] c.kind = "Link" ->
                            collectInlineTokens(c.kids, fnt, size100, "Link", TRUE)
                      [] c.kind = "CodeSpan" ->
                            (IF c.text # <<>>
                             THEN << TextTok(c.text, "mono", IntMul(size100, 95, 100), color, underline, Tag("content", 0)) >>
                             ELSE <<>>)
                      [] OTHER ->
                            (IF c.kids # <<>>
                             THEN collectInlineTokens(c.kids, fnt, size100, color, underline)
                             ELSE <<>>)
         IN out \o collectInlineTokens(Tail(kids), font, size100, color, underline)

\* ---- Table layout ----
runeCount(s) == Len(s)

Repeat(ch, n) == [i \in 1..n |-> ch]

MaxCells(rows) ==
    IF rows = <<>> THEN 0
    ELSE CHOOSE m \in {Len(rows[i]) : i \in 1..Len(rows)} : \A i \in 1..Len(rows) : Len(rows[i]) <= m

\* widths[i] of renderTable: longest cell of column i, at least 3
ColumnWidth(header, rows, i) ==
    LET cells == (IF i <= Len(header) THEN {runeCount(header[i])} ELSE {})
                 \cup {runeCount(rows[k][i]) : k \in {j \in 1..Len(rows) : i <= Len(rows[j])}}
                 \cup {3}
    IN CHOOSE m \in cells : \A x \in cells : x <= m

RECURSIVE TableLineText(_, _, _)
TableLineText(cells, widths, i) ==
    IF i > Len(widths) THEN <<>>
    ELSE LET cell == IF i <= Len(cells) THEN cells[i] ELSE <<>>
             pad  == widths[i] - runeCount(cell)
         IN cell \o (IF pad > 0 THEN Repeat(" ", pad) ELSE <<>>) \o <<" ", "|", " ">>
            \o TableLineText(cells, widths, i + 1)

drawTableLine(R, cells, widths, left, font, bold, cv, baseSize) ==
    LET text   == <<"|", " ">> \o TableLineText(cells, widths, 1)
        tokens == << TextTok(text, IF bold THEN "bold" ELSE font, IntMul(baseSize, 95, 100),
                             "FG", FALSE, Tag("content", 0)) >>
    IN DrawTok(R, tokens, left, cv.w - cv.margin, cv)

RECURSIVE SeparatorText(_, _)
SeparatorText(widths, i) ==
    IF i > Len(widths) THEN <<>>
    ELSE Repeat("-", widths[i]) \o <<" ", "|", " ">> \o SeparatorText(widths, i + 1)

drawTableSeparator(R, widths, left, font, cv, baseSize) ==
    LET text   == <<"|", " ">> \o SeparatorText(widths, 1)
        tokens == << TextTok(text, font, IntMul(baseSize, 90, 100), "FG", FALSE, Tag("content", 0)) >>
    IN DrawTok(R, tokens, left, cv.w - cv.margin, cv)

RECURSIVE DrawRows(_, _, _, _, _, _)
DrawRows(R, rows, widths, left, cv, baseSize) ==
    IF rows = <<>> THEN R
    ELSE DrawRows(drawTableLine(R, Head(rows), widths, left, "mono", FALSE, cv, baseSize),
                  Tail(rows), widths, left, cv, baseSize)

\* renderTable with the column count taken from the header alone
renderTable_HeaderColumns(R, header, rows, cv, baseSize) ==
    LET left   == IF HasList(R) THEN R.listStack[Len(R.listStack)].contentLeft ELSE cv.margin
        widths == [i \in 1..Len(header) |-> ColumnWidth(header, rows, i)]
        R1     == addVSpace(IF HasList(R) THEN ensureListMarker(R, cv, baseSize) ELSE R,
                            IntPx(baseSize, 60))
    IN IF Len(header) = 0 THEN R
       ELSE addVSpace(DrawRows(drawTableSeparator(
                                   drawTableLine(R1, header, widths, left, "mono", TRUE, cv, baseSize),
                                   widths, left, "mono", cv, baseSize),
                               rows, widths, left, cv, baseSize),
                      IntPx(baseSize, 80))

\* renderTable on the header cells and body rows extractTableRows returns
renderTable(R, header, rows, cv, baseSize) ==
    LET ctx  == currentListContext(R)
        R0   == IF HasList(R) THEN ensureListMarker(R, cv, baseSize) ELSE R
        left == IF HasList(R) THEN ctx.contentLeft ELSE cv.margin
        columnCount == MaxOf(Len(header), MaxCells(rows))
        widths == [i \in 1..columnCount |-> ColumnWidth(header, rows, i)]
        R1   == addVSpace(R0, IntPx(baseSize, 60))
        R2   == IF Len(header) > 0
                THEN drawTableSeparator(drawTableLine(R1, header, widths, left, "mono", TRUE, cv, baseSize),
                                        widths, left, "mono", cv, baseSize)
                ELSE R1
    IN IF columnCount = 0 THEN R0
       ELSE addVSpace(DrawRows(R2, rows, widths, left, cv, baseSize), IntPx(baseSize, 80))

\* ---- Block Renderer: the cases of the walker callback of renderer.render ----
\* each returns the renderer state, the ast.WalkStatus and the error
Ret(R, status) == [R |-> R, status |-> status, err |-> "nil"]

Gap == Repeat(" ", 6)

\* marker interleave of the Heading and Paragraph cases: the leading tokens,
\* the left margin and the item stack with the "drawn" flag set
MarkerLead(R, cv, baseSize) ==
    LET ctx  == currentListContext(R)
        item == currentItemContext(R)
    IN IF ~HasList(R) THEN [tokens |-> <<>>, left |-> cv.margin, R |-> R]
       ELSE IF HasItem(R) /\ ~item.drawn
            THEN [tokens |-> << TextTok(item.marker, "regular", baseSize, "FG", FALSE, MarkerTag(item)),
                                TextTok(Gap, "regular", baseSize, "FG", FALSE, Tag("gap", 0)) >>,
                  left |-> ctx.indent,
                  R |-> [R EXCEPT !.itemStack[Len(R.itemStack)].drawn = TRUE]]
            ELSE [tokens |-> <<>>, left |-> ctx.contentLeft, R |-> R]

OnList(R, entering, list, cv, baseSize) ==
    Ret(IF entering THEN pushListContext(R, list, cv, baseSize) ELSE popListContext(R, baseSize),
        "continue")

OnListItem(R, entering, id, cv, baseSize) ==
    Ret(IF entering THEN beginListItem(R, id) ELSE endListItem(R, cv, baseSize), "continue")

\* if !entering { return ast.WalkContinue, nil }
OnLeave(R) == Ret(R, "continue")

HeadingSize(lvl, baseSize) ==
    CASE lvl = 1 -> IntMul(baseSize, 190, 100)
      [] lvl = 2 -> IntMul(baseSize, 160, 100)
      [] lvl = 3 -> IntMul(baseSize, 140, 100)
      [] lvl = 4 -> IntMul(baseSize, 125, 100)
      [] OTHER   -> IntMul(baseSize, 115, 100)

OnHeading(R, lvl, kids, cv, baseSize) ==
    LET lead   == MarkerLead(R, cv, baseSize)
        tokens == lead.tokens \o collectInlineTokens(kids, "regular", HeadingSize(lvl, baseSize), "FG", FALSE)
        R1     == addVSpace(lead.R, IntPx(baseSize, 60))
        R2     == DrawTok(R1, tokens, lead.left, cv.w - cv.margin, cv)
    IN Ret(addVSpace(R2, IntPx(baseSize, 75)), "skip")

OnParagraph(R, kids, cv, baseSize) ==
    LET lead   == MarkerLead(R, cv, baseSize)
        tokens == lead.tokens \o collectInlineTokens(kids, "regular", baseSize, "FG", FALSE)
        R1     == DrawTok(lead.R, tokens, lead.left, cv.w - cv.margin, cv)
    IN IF Len(tokens) > 0
       THEN Ret(addVSpace(R1, IF HasList(R)
                              THEN IntPx(baseSize, 60) ELSE IntPx(baseSize, 150)), "skip")
       ELSE Ret(lead.R, "skip")

OnCodeBlock(R, text, cv, baseSize) ==
    LET ctx  == currentListContext(R)
        R0   == IF HasList(R) THEN ensureListMarker(R, cv, baseSize) ELSE R
        left == IF HasList(R) THEN ctx.contentLeft ELSE cv.margin
    IN Ret(drawCodeBlock(addVSpace(R0, 4), text, left, cv.w - cv.margin,
                         IntMul(baseSize, 95, 100), cv), "skip")

\* the Blockquote case with the bar as high as the distance from startY
OnBlockquote_FromStart(R, kids, cv, baseSize) ==
    LET startY == R.cursorY
        ctx    == currentListContext(R)
        R0     == IF HasList(R) THEN ensureListMarker(R, cv, baseSize) ELSE R
        left   == IF HasList(R) THEN ctx.contentLeft ELSE cv.margin
        tokens == collectInlineTokens(kids, "regular", baseSize, "FG", FALSE)
        R1     == addVSpace(DrawTok(addVSpace(R0, 2), tokens, left + 10, cv.w - cv.margin, cv), 6)
        bar    == [ShapePaint("quotebar", startY + 2, cv.margin, "QuoteBar", ItemIds(R.itemStack))
                      EXCEPT !.size = R1.cursorY - startY]
    IN IF Len(tokens) > 0
       THEN Ret([R1 EXCEPT !.paints = Append(R1.paints, bar)], "skip")
       ELSE Ret(R0, "skip")

OnBlockquote(R, kids, cv, baseSize) ==
    LET startY == R.cursorY
        ctx    == currentListContext(R)
        R0     == IF HasList(R) THEN ensureListMarker(R, cv, baseSize) ELSE R
        left   == IF HasList(R) THEN ctx.contentLeft ELSE cv.margin
        tokens == collectInlineTokens(kids, "regular", baseSize, "FG", FALSE)
        R1     == addVSpace(DrawTok(addVSpace(R0, 2), tokens, left + 10, cv.w - cv.margin, cv), 6)
        bar    == [ShapePaint("quotebar", startY + 2, cv.margin, "QuoteBar", ItemIds(R.itemStack))
                      EXCEPT !.size = R1.cursorY - startY - 2]
    IN IF Len(tokens) > 0
       THEN Ret([R1 EXCEPT !.paints = Append(R1.paints, bar)], "skip")
       ELSE Ret(R0, "skip")

OnThematicBreak(R, cv) == Ret(drawHRule(R, cv), "skip")

OnTable(R, tbl, cv, baseSize) == Ret(renderTable(R, tbl.header, tbl.rows, cv, baseSize), "skip")

\* default case that reports the unknown kind as an error
OnDefault_Error(R, kind, cv, baseSize) == [R |-> R, status |-> "stop", err |-> "unsupported node"]

\* default case that paints the warning and lets the walk descend
OnDefault_Continue(R, kind, cv, baseSize) ==
    Ret(renderUnsupportedNode(IF HasList(R) THEN ensureListMarker(R, cv, baseSize) ELSE R, kind,
                              IF HasList(R) THEN R.listStack[Len(R.listStack)].contentLeft ELSE cv.margin,
                              cv, baseSize),
        "continue")

\* default case for a block node that is not the Document
OnDefault(R, kind, cv, baseSize) ==
    LET ctx  == currentListContext(R)
        R0   == IF HasList(R) THEN ensureListMarker(R, cv, baseSize) ELSE R
        left == IF HasList(R) THEN ctx.contentLeft ELSE cv.margin
    IN Ret(renderUnsupportedNode(R0, kind, left, cv, baseSize), "skip")

\* default case for the Document node
OnDocument(R) == Ret(R, "continue")

\* ---- State ----
VARIABLES
    pc,          \* "start", "walk", "walked", "done" of Render; "wrap", "wrapped" of a wrapLines call
    opts,        \* RenderOptions as passed by the caller
    cv,          \* canvas: w, margin, ptSize, fontBase, h
    baseSize,    \* renderer.baseSize, hundredths of a point
    cursorY,     \* canvas.cursorY
    listStack,   \* renderer.listStack
    itemStack,   \* renderer.itemStack
    frames,      \* ast.Walk: the nodes entered and not yet left, outermost first
    err,         \* error returned by the walk
    result,      \* what Render returned
    paints,      \* history: everything painted, in order
    assigns,     \* history: cursorY before the last handler, then every value it assigned
    pmark,       \* history: length of paints before the last handler
    items,       \* history: the list items begun, with their list and position
    count,       \* history: number of leaf blocks, lists and items entered
    tokens,      \* history: the tokens the last handler handed to drawTokens, in order
    tbl,         \* the table handed to a renderTable call on its own
    linkFootnotes, imageFootnotes,   \* renderer: the footnote toggles
    footnotes,   \* renderer.footnotes: the registered destinations, in order
    footnoteIndex,   \* renderer.footnoteIndex: destination -> 1-based index
    refs,        \* history: the links and images met so far, in document order
    marks,       \* history: the index markers appended after them
    glyphBuf,    \* the glyph buffer of the Regular face of the caller's font set
    calls,       \* two Render calls running at once: what each goroutine holds
    again,       \* a second Render call of the same caller: which call runs, the
                 \* document the first call walked, what is left of it for the
                 \* second, and what the first call returned
    wText, wMaxWidth, wLines,  \* argument and result of a wrapLines call
    dt           \* a drawTokens call on its own: the tokens left, the bounds and the locals

vars == <<pc, opts, cv, baseSize, cursorY, listStack, itemStack, frames, err, result,
          paints, assigns, pmark, items, count, tokens, tbl,
          linkFootnotes, imageFootnotes, footnotes, footnoteIndex, refs, marks,
          glyphBuf, calls, again, wText, wMaxWidth, wLines, dt>>

wrapVars == <<wText, wMaxWidth, wLines, dt>>

renderVars == <<opts, cv, baseSize, cursorY, listStack, itemStack, frames, err, result,
                paints, assigns, pmark, items, count, tokens, again>>

footVars == <<linkFootnotes, imageFootnotes, footnotes, footnoteIndex, refs, marks>>

\* what neither a render nor a wrapLines call touches
idleVars == <<tbl, footVars, glyphBuf, calls>>

\* what a render does not touch
otherVars == <<wrapVars, idleVars>>

\* ---- Inputs ----
\* a font role of the caller's font set: nil or a face the caller loaded
NoFonts == [Regular |-> "nil", Bold |-> "nil", Mono |-> "nil"]

OwnFonts == [Regular |-> "own", Bold |-> "own", Mono |-> "own"]

\* RenderOptions{} (all defaults), a narrow page, a small page with small
\* type, and very large type on the default page
OptionSamples ==
    { [Width |-> 0, Margin |-> 0, BaseFontSize |-> 0, Theme |-> "zero", Fonts |-> NoFonts],
      [Width |-> 200, Margin |-> 20, BaseFontSize |-> 1800, Theme |-> "dark", Fonts |-> OwnFonts],
      [Width |-> 300, Margin |-> 10, BaseFontSize |-> 1000, Theme |-> "zero", Fonts |-> NoFonts],
      [Width |-> 0, Margin |-> 0, BaseFontSize |-> 102400, Theme |-> "zero", Fonts |-> NoFonts] }

ListShapes ==
    { [ordered |-> FALSE, start |-> 0, tight |-> TRUE],
      [ordered |-> TRUE, start |-> 0, tight |-> FALSE],
      [ordered |-> TRUE, start |-> 3, tight |-> TRUE] }

NoList == [ordered |-> FALSE, start |-> 0, tight |-> FALSE]

HeadingLevels == {1, 6}

InlineSamples ==
    { << TextNode(<<"a">>, FALSE) >>,
      << TextNode(<<"a", " ", "b">>, TRUE),
         EmphasisNode(2, << TextNode(<<"c">>, FALSE) >>),
         LinkNode(<< TextNode(<<"d">>, FALSE) >>) >> }

HeadingSample == << TextNode(<<"h">>, FALSE) >>

CodeSamples == { <<" ", " ", "a", " ", " ", "b", LF, LF, "c", LF>> }

QuoteSamples == { <<>>, << ParagraphNode(<< TextNode(<<"q">>, FALSE) >>) >> }

TableSamples ==
    { [header |-> << <<"A">>, <<"B">> >>, rows |-> << << <<"1">> >> >>] }

NoTable == [header |-> <<>>, rows |-> <<>>]

HTMLBlock == <<"H", "T", "M", "L", "B", "l", "o", "c", "k">>

TextBlock == <<"T", "e", "x", "t", "B", "l", "o", "c", "k">>

\* ---- Render: options and canvas ----
\* the bundled fonts replace the whole font set as soon as one role is nil
ApplyDefaults_AllBundled(o) ==
    [Width        |-> IF o.Width <= 0 THEN 1024 ELSE o.Width,
     Margin       |-> IF o.Margin <= 0 THEN 48 ELSE o.Margin,
     BaseFontSize |-> IF o.BaseFontSize <= 0 THEN 1600 ELSE o.BaseFontSize,
     Theme        |-> IF o.Theme = "zero" THEN "light" ELSE o.Theme,
     Fonts        |-> IF "nil" \in {o.Fonts.Regular, o.Fonts.Bold, o.Fonts.Mono}
                      THEN [Regular |-> "bundled", Bold |-> "bundled", Mono |-> "bundled"]
                      ELSE o.Fonts]

\* the options after Render has filled in the defaults; LoadFonts with no
\* paths parses the bundled fonts and does not fail
ApplyDefaults(o) ==
    [Width        |-> IF o.Width <= 0 THEN 1024 ELSE o.Width,
     Margin       |-> IF o.Margin <= 0 THEN 48 ELSE o.Margin,
     BaseFontSize |-> IF o.BaseFontSize <= 0 THEN 1600 ELSE o.BaseFontSize,
     Theme        |-> IF o.Theme = "zero" THEN "light" ELSE o.Theme,
     Fonts        |-> [Regular |-> IF o.Fonts.Regular = "nil" THEN "bundled" ELSE o.Fonts.Regular,
                       Bold    |-> IF o.Fonts.Bold = "nil" THEN "bundled" ELSE o.Fonts.Bold,
                       Mono    |-> IF o.Fonts.Mono = "nil" THEN "bundled" ELSE o.Fonts.Mono]]

\* a canvas kept from one call to the next: its cursor stays where it was
newCanvas_Reused(width, margin, th, fonts, ptSize) ==
    [w |-> width, margin |-> margin, ptSize |-> ptSize, fontBase |-> ptSize, h |-> 4096 * 2,
     th |-> th, fonts |-> fonts, cursorY |-> IF cv.h = 0 THEN margin ELSE cursorY]

\* the canvas newCanvas returns; its cursor starts at the margin
newCanvas(width, margin, th, fonts, ptSize) ==
    [w |-> width, margin |-> margin, ptSize |-> ptSize, fontBase |-> ptSize, h |-> 4096 * 2,
     th |-> th, fonts |-> fonts, cursorY |-> margin]

RenderBegin ==
    /\ pc = "start"
    /\ LET o == ApplyDefaults(opts)
           c == newCanvas(o.Width, o.Margin, o.Theme, o.Fonts, o.BaseFontSize)
       IN /\ cv' = [f \in DOMAIN c \ {"cursorY"} |-> c[f]]
          /\ baseSize' = o.BaseFontSize
          /\ cursorY' = c.cursorY
          /\ assigns' = <<c.cursorY>>
    /\ listStack' = <<>>
    /\ itemStack' = <<>>
    /\ paints' = <<>>
    /\ pmark' = 0
    /\ tokens' = <<>>
    /\ pc' = "walk"
    /\ UNCHANGED <<opts, frames, err, result, items, count, again, otherVars>>

\* ---- ast.Walk ----
CurR == [cursorY |-> cursorY, listStack |-> listStack, itemStack |-> itemStack,
         paints |-> paints, assigns |-> <<cursorY>>, tokens |-> <<>>]

Commit(R) ==
    /\ cursorY' = R.cursorY
    /\ listStack' = R.listStack
    /\ itemStack' = R.itemStack
    /\ paints' = R.paints
    /\ assigns' = R.assigns
    /\ pmark' = Len(paints)
    /\ tokens' = R.tokens

Frame(kind, status, list, id) == [kind |-> kind, status |-> status, list |-> list, id |-> id, n |-> 0]

Top == frames[Len(frames)]

\* the children of the innermost open node are visited
Descending == pc = "walk" /\ Len(frames) > 0 /\ Top.status = "continue"

NodeCount == count.leaf + count.list + count.item

BlockParents == {"Document", "ListItem", "Blockquote", "Unsupported"}

\* walker(n, true) returned res: on an error or WalkStop the walk ends,
\* otherwise n is open and its children are visited unless WalkSkipChildren
\* one call of the walker: the node (its frame, and for a leaf block its
\* content arg) and whether it is entered or left
Visit(entering, frame, arg) == [entering |-> entering, frame |-> frame, arg |-> arg]

SameVisit(a, b) ==
    /\ a.entering = b.entering
    /\ a.frame.kind = b.frame.kind
    /\ a.frame = b.frame
    /\ a.arg = b.arg

\* the document is the parser's: a first call walks any document, a second
\* call of the same bytes walks the same nodes in the same order
Follow(visit) ==
    IF again.call = 2
    THEN /\ again.rest # <<>>
         /\ SameVisit(Head(again.rest), visit)
         /\ again' = [again EXCEPT !.rest = Tail(@)]
    ELSE IF again.call = 1
    THEN /\ (visit.entering /\ visit.frame.kind # "Document") => NodeCount < MaxTwice
         /\ again' = [again EXCEPT !.script = Append(@, visit)]
    ELSE again' = again

Entered(res, frame, arg) ==
    /\ Follow(Visit(TRUE, frame, arg))
    /\ Commit(res.R)
    /\ IF res.err # "nil" \/ res.status = "stop"
       THEN /\ pc' = "walked"
            /\ err' = res.err
            /\ frames' = frames
       ELSE /\ pc' = "walk"
            /\ err' = err
            /\ frames' = Append(IF Len(frames) > 0 /\ frame.kind = "ListItem"
                                THEN [frames EXCEPT ![Len(frames)].n = @ + 1] ELSE frames,
                                [frame EXCEPT !.status = res.status])

\* walker(n, false) returned res for the innermost open node
Left(res) ==
    /\ Follow(Visit(FALSE, [Top EXCEPT !.status = "continue", !.n = 0], <<>>))
    /\ Commit(res.R)
    /\ err' = res.err
    /\ frames' = SubSeq(frames, 1, Len(frames) - 1)
    /\ pc' = IF res.err # "nil" \/ res.status = "stop" \/ Len(frames) = 1 THEN "walked" ELSE "walk"

EnterDocument ==
    /\ pc = "walk" /\ frames = <<>>
    /\ Entered(OnDocument(CurR), Frame("Document", "continue", NoList, 0), <<>>)
    /\ UNCHANGED <<opts, cv, baseSize, result, items, count, otherVars>>

EnterList ==
    /\ Descending /\ Top.kind \in BlockParents
    /\ count.list < MaxLists /\ NodeCount < MaxNodes
    /\ \E shape \in ListShapes :
          Entered(OnList(CurR, TRUE, shape, cv, baseSize),
                  Frame("List", "continue", shape, count.list + 1), <<>>)
    /\ count' = [count EXCEPT !.list = @ + 1]
    /\ UNCHANGED <<opts, cv, baseSize, result, items, otherVars>>

EnterListItem ==
    /\ Descending /\ Top.kind = "List"
    /\ count.item < MaxItems /\ NodeCount < MaxNodes
    /\ LET id  == count.item + 1
           res == OnListItem(CurR, TRUE, id, cv, baseSize)
       IN /\ Entered(res, Frame("ListItem", "continue", Top.list, id), <<>>)
          /\ items' = Append(items, [id |-> id, list |-> Top.id, k |-> Top.n + 1,
                                     shape |-> Top.list, depth |-> Len(listStack),
                                     marker |-> res.R.itemStack[Len(res.R.itemStack)].marker])
    /\ count' = [count EXCEPT !.item = @ + 1]
    /\ UNCHANGED <<opts, cv, baseSize, result, otherVars>>

\* a leaf block may be entered under the innermost open node
LeafAllowed ==
    Descending /\ Top.kind \in BlockParents /\ count.leaf < MaxBlocks /\ NodeCount < MaxNodes

LeafEntered(res, kind, arg) ==
    /\ Entered(res, Frame(kind, "continue", NoList, 0), arg)
    /\ count' = [count EXCEPT !.leaf = @ + 1]
    /\ UNCHANGED <<opts, cv, baseSize, result, items, otherVars>>

EnterHeading ==
    /\ LeafAllowed
    /\ \E lvl \in HeadingLevels :
          LeafEntered(OnHeading(CurR, lvl, HeadingSample, cv, baseSize), "Heading", lvl)

\* the parser turns the paragraphs of the items of a tight list into text blocks
EnterParagraph ==
    /\ LeafAllowed
    /\ Top.kind = "ListItem" => ~Top.list.tight
    /\ \E kids \in InlineSamples :
          LeafEntered(OnParagraph(CurR, kids, cv, baseSize), "Paragraph", kids)

EnterCodeBlock ==
    /\ LeafAllowed
    /\ \E text \in CodeSamples :
          LeafEntered(OnCodeBlock(CurR, text, cv, baseSize), "CodeBlock", text)

EnterBlockquote ==
    /\ LeafAllowed
    /\ \E kids \in QuoteSamples :
          LeafEntered(OnBlockquote(CurR, kids, cv, baseSize), "Blockquote", kids)

EnterThematicBreak ==
    /\ LeafAllowed
    /\ LeafEntered(OnThematicBreak(CurR, cv), "ThematicBreak", <<>>)

EnterTable ==
    /\ LeafAllowed
    /\ \E sample \in TableSamples :
          LeafEntered(OnTable(CurR, sample, cv, baseSize), "Table", sample)

\* a block of a kind the switch does not name: an HTML block anywhere, a
\* text block in an item of a tight list
EnterUnsupported ==
    /\ LeafAllowed
    /\ \E kind \in {HTMLBlock, TextBlock} :
          /\ kind = TextBlock => (Top.kind = "ListItem" /\ Top.list.tight)
          /\ LeafEntered(OnDefault(CurR, kind, cv, baseSize), "Unsupported", kind)

LeaveList ==
    /\ pc = "walk" /\ Len(frames) > 0 /\ Top.kind = "List"
    /\ Top.n >= 1
    /\ Left(OnList(CurR, FALSE, Top.list, cv, baseSize))
    /\ UNCHANGED <<opts, cv, baseSize, result, items, count, otherVars>>

LeaveListItem ==
    /\ pc = "walk" /\ Len(frames) > 0 /\ Top.kind = "ListItem"
    /\ Left(OnListItem(CurR, FALSE, Top.id, cv, baseSize))
    /\ UNCHANGED <<opts, cv, baseSize, result, items, count, otherVars>>

LeaveBlock ==
    /\ pc = "walk" /\ Len(frames) > 0 /\ Top.kind \notin {"List", "ListItem"}
    /\ Left(OnLeave(CurR))
    /\ UNCHANGED <<opts, cv, baseSize, result, items, count, otherVars>>

\* ---- Render: crop ----
\* the cropped height without the floor of margin + 50
UsedHeight_NoFloor(cursor, margin) == cursor + margin

\* used of Render: the height of the image returned
UsedHeight(cursor, margin) ==
    LET used == cursor + margin
    IN IF used < margin + 50 THEN margin + 50 ELSE used

RenderEnd ==
    /\ pc = "walked"
    /\ result' = IF err # "nil"
                 THEN [img |-> FALSE, err |-> err, w |-> 0, h |-> 0]
                 ELSE [img |-> TRUE, err |-> "nil", w |-> cv.w, h |-> UsedHeight(cursorY, cv.margin)]
    /\ pc' = "done"
    /\ assigns' = <<cursorY>>
    /\ pmark' = Len(paints)
    /\ tokens' = <<>>
    /\ UNCHANGED <<opts, cv, baseSize, cursorY, listStack, itemStack, frames, err,
                   paints, items, count, again, otherVars>>

\* no footnote collected: the values of a renderer just made
NoFoot ==
    /\ linkFootnotes = FALSE /\ imageFootnotes = FALSE
    /\ footnotes = <<>> /\ footnoteIndex = <<>>
    /\ refs = <<>> /\ marks = <<>>

\* no drawTokens call on its own
NoDraw == [rest |-> <<>>, left |-> 0, right |-> 0, st |-> NoLine(0)]

\* no glyph loaded; no concurrent call
NoCalls == glyphBuf = [AdvanceWidth |-> 0] /\ calls = <<>>

NoFirst == [paints |-> <<>>, cursorY |-> 0, result |-> [img |-> FALSE, err |-> "nil", w |-> 0, h |-> 0]]

\* a caller that calls Render once
Once == [call |-> 0, script |-> <<>>, rest |-> <<>>, first |-> NoFirst]

NoCanvas == [w |-> 0, margin |-> 0, ptSize |-> 0, fontBase |-> 0, h |-> 0,
             th |-> "zero", fonts |-> NoFonts]

NoResult == [img |-> FALSE, err |-> "nil", w |-> 0, h |-> 0]

Init ==
    /\ pc = "start"
    /\ opts \in OptionSamples
    /\ cv = NoCanvas
    /\ baseSize = 0
    /\ cursorY = 0
    /\ listStack = <<>>
    /\ itemStack = <<>>
    /\ frames = <<>>
    /\ err = "nil"
    /\ result = NoResult
    /\ paints = <<>>
    /\ assigns = <<0>>
    /\ pmark = 0
    /\ items = <<>>
    /\ count = [leaf |-> 0, list |-> 0, item |-> 0]
    /\ tokens = <<>>
    /\ tbl = NoTable
    /\ NoFoot
    /\ again = Once
    /\ NoCalls
    /\ dt = NoDraw
    /\ wText = <<>> /\ wMaxWidth = 0 /\ wLines = <<>>

Next ==
    \/ RenderBegin
    \/ EnterDocument
    \/ EnterList
    \/ EnterListItem
    \/ EnterHeading
    \/ EnterParagraph
    \/ EnterCodeBlock
    \/ EnterBlockquote
    \/ EnterThematicBreak
    \/ EnterTable
    \/ EnterUnsupported
    \/ LeaveList
    \/ LeaveListItem
    \/ LeaveBlock
    \/ RenderEnd

Spec == Init /\ [][Next]_vars

\* ---- a call of wrapLines on its own ----
Texts == UNION {[1..n -> Alphabet] : n \in 0..MaxLen}

MaxWidths == {-1, 0, 15, 30}

WrapFont == "mono"

WrapSize == 1400

InitWrap ==
    /\ pc = "wrap"
    /\ wText \in Texts
    /\ wMaxWidth \in MaxWidths
    /\ wLines = <<>>
    /\ opts = [Width |-> 0, Margin |-> 0, BaseFontSize |-> 0, Theme |-> "zero", Fonts |-> NoFonts]
    /\ cv = NoCanvas
    /\ baseSize = 0
    /\ cursorY = 0
    /\ listStack = <<>>
    /\ itemStack = <<>>
    /\ frames = <<>>
    /\ err = "nil"
    /\ result = NoResult
    /\ paints = <<>>
    /\ assigns = <<0>>
    /\ pmark = 0
    /\ items = <<>>
    /\ count = [leaf |-> 0, list |-> 0, item |-> 0]
    /\ tokens = <<>>
    /\ tbl = NoTable
    /\ NoFoot
    /\ again = Once
    /\ NoCalls
    /\ dt = NoDraw

WrapCall ==
    /\ pc = "wrap"
    /\ wLines' = wrapLines(WrapFont, WrapSize, WrapSize, wText, wMaxWidth)
    /\ pc' = "wrapped"
    /\ UNCHANGED <<wText, wMaxWidth, dt, renderVars, idleVars>>

NextWrap == WrapCall

SpecWrap == InitWrap /\ [][NextWrap]_vars

\* ---- a call of renderTable on its own ----
\* cell texts as extractTableRow returns them (trimmed, of one line); a row
\* with fewer cells than another has empty cells in its place
CellTexts == {<<"a">>, <<"b", " ", "b", "b">>}

CellRows == UNION {[1..n -> CellTexts] : n \in 0..MaxCols}

\* header cells and body rows; a table has at least one cell
Tables ==
    {t \in [header : CellRows, rows : UNION {[1..n -> CellRows] : n \in 0..MaxRows}] :
        Len(t.header) > 0 \/ \E k \in 1..Len(t.rows) : Len(t.rows[k]) > 0}

\* the table is rendered with RenderOptions{}
InitTable ==
    /\ pc = "start"
    /\ opts \in {o \in OptionSamples : o.Width = 0 /\ o.BaseFontSize = 0}
    /\ tbl \in Tables
    /\ cv = NoCanvas
    /\ baseSize = 0
    /\ cursorY = 0
    /\ listStack = <<>>
    /\ itemStack = <<>>
    /\ frames = <<>>
    /\ err = "nil"
    /\ result = NoResult
    /\ paints = <<>>
    /\ assigns = <<0>>
    /\ pmark = 0
    /\ items = <<>>
    /\ count = [leaf |-> 0, list |-> 0, item |-> 0]
    /\ tokens = <<>>
    /\ NoFoot
    /\ again = Once
    /\ NoCalls
    /\ dt = NoDraw
    /\ wText = <<>> /\ wMaxWidth = 0 /\ wLines = <<>>

\* the Table case of the walker on a fresh canvas
TableCall ==
    /\ pc = "walk"
    /\ Commit(OnTable(CurR, tbl, cv, baseSize).R)
    /\ pc' = "tabled"
    /\ UNCHANGED <<opts, cv, baseSize, frames, err, result, items, count, again, otherVars>>

NextTable == RenderBegin \/ TableCall

SpecTable == InitTable /\ [][NextTable]_vars

\* ---- the footnote registry (renderer.footnotes, renderer.footnoteIndex) ----
\* strings.TrimSpace on a destination
RECURSIVE TrimLeft(_)
TrimLeft(s) == IF s # <<>> /\ IsSpace(Head(s)) THEN TrimLeft(Tail(s)) ELSE s

RECURSIVE TrimRight(_)
TrimRight(s) ==
    IF s # <<>> /\ IsSpace(s[Len(s)]) THEN TrimRight(SubSeq(s, 1, Len(s) - 1)) ELSE s

TrimSpace(s) == TrimRight(TrimLeft(s))

\* registration that appends the destination whether it is known or not
registerFootnote_Append(fns, index, dest) ==
    [footnotes |-> Append(fns, TrimSpace(dest)),
     index |-> [d \in DOMAIN index \cup {TrimSpace(dest)} |-> Len(fns) + 1],
     n |-> Len(fns) + 1]

\* the registry's lookup-or-insert: the index of a known destination, the
\* next index for a new one
registerFootnote(fns, index, dest) ==
    LET key == TrimSpace(dest)
    IN IF key \in DOMAIN index
       THEN [footnotes |-> fns, index |-> index, n |-> index[key]]
       ELSE [footnotes |-> Append(fns, key),
             index |-> [d \in DOMAIN index \cup {key} |-> IF d = key THEN Len(fns) + 1 ELSE index[d]],
             n |-> Len(fns) + 1]

\* a reference registered when either toggle is on
footnoteEnabled_Either(kind) == linkFootnotes \/ imageFootnotes

\* the toggle of the reference's kind
footnoteEnabled(kind) == IF kind = "link" THEN linkFootnotes ELSE imageFootnotes

Destinations == {<<"u">>, <<" ", "u">>, <<"v">>, <<"i">>}

\* the Token Collector has collected a link or an image with destination dest
Reference(kind, dest) ==
    /\ pc = "collect"
    /\ Len(refs) < MaxRefs
    /\ refs' = Append(refs, [kind |-> kind, dest |-> dest])
    /\ IF footnoteEnabled(kind)
       THEN LET reg == registerFootnote(footnotes, footnoteIndex, dest)
            IN /\ footnotes' = reg.footnotes
               /\ footnoteIndex' = reg.index
               /\ marks' = Append(marks, [ref |-> Len(refs) + 1, n |-> reg.n])
       ELSE UNCHANGED <<footnotes, footnoteIndex, marks>>
    /\ UNCHANGED <<pc, linkFootnotes, imageFootnotes, renderVars, wrapVars, tbl, glyphBuf, calls>>

CollectLink == \E dest \in Destinations : Reference("link", dest)

CollectImage == \E dest \in Destinations : Reference("image", dest)

InitFoot ==
    /\ pc = "collect"
    /\ linkFootnotes \in BOOLEAN /\ imageFootnotes \in BOOLEAN
    /\ footnotes = <<>> /\ footnoteIndex = <<>>
    /\ refs = <<>> /\ marks = <<>>
    /\ opts = [Width |-> 0, Margin |-> 0, BaseFontSize |-> 0, Theme |-> "zero", Fonts |-> NoFonts]
    /\ cv = NoCanvas
    /\ baseSize = 0
    /\ cursorY = 0
    /\ listStack = <<>>
    /\ itemStack = <<>>
    /\ frames = <<>>
    /\ err = "nil"
    /\ result = NoResult
    /\ paints = <<>>
    /\ assigns = <<0>>
    /\ pmark = 0
    /\ items = <<>>
    /\ count = [leaf |-> 0, list |-> 0, item |-> 0]
    /\ tokens = <<>>
    /\ tbl = NoTable
    /\ again = Once
    /\ NoCalls
    /\ dt = NoDraw
    /\ wText = <<>> /\ wMaxWidth = 0 /\ wLines = <<>>

NextFoot == CollectLink \/ CollectImage

SpecFoot == InitFoot /\ [][NextFoot]_vars

\* ---- paragraphs with an image ----
\* ast.Image: text is the destination, kids the alt text; collectInlineTokens has
\* no case for it, so it falls to the default case
ImageNode(dest, kids) == [kind |-> "Image", text |-> dest, level |-> 0, soft |-> FALSE, kids |-> kids]

\* ![i](u)   a ![i](u) b   ![](u)   a ![](u)
ImageSamples ==
    { << ImageNode(<<"u">>, << TextNode(<<"i">>, FALSE) >>) >>,
      << TextNode(<<"a", " ">>, FALSE),
         ImageNode(<<"u">>, << TextNode(<<"i">>, FALSE) >>),
         TextNode(<<" ", "b">>, FALSE) >>,
      << ImageNode(<<"u">>, <<>>) >>,
      << TextNode(<<"a", " ">>, FALSE), ImageNode(<<"u">>, <<>>) >> }

EnterImageParagraph ==
    /\ LeafAllowed
    /\ \E kids \in ImageSamples :
          LeafEntered(OnParagraph(CurR, kids, cv, baseSize), "Paragraph", kids)

NextImage ==
    \/ RenderBegin
    \/ EnterDocument
    \/ EnterImageParagraph
    \/ EnterHeading
    \/ LeaveBlock
    \/ RenderEnd

SpecImage == Init /\ [][NextImage]_vars

\* ---- two Render calls, one after the other ----
\* the caller passes the same bytes and the same options twice
InitTwice ==
    /\ pc = "start"
    /\ opts \in { o \in OptionSamples : o.Fonts = OwnFonts \/ (o.Width = 0 /\ o.BaseFontSize = 0) }
    /\ cv = NoCanvas
    /\ baseSize = 0
    /\ cursorY = 0
    /\ listStack = <<>>
    /\ itemStack = <<>>
    /\ frames = <<>>
    /\ err = "nil"
    /\ result = NoResult
    /\ paints = <<>>
    /\ assigns = <<0>>
    /\ pmark = 0
    /\ items = <<>>
    /\ count = [leaf |-> 0, list |-> 0, item |-> 0]
    /\ tokens = <<>>
    /\ tbl = NoTable
    /\ NoFoot
    /\ again = [Once EXCEPT !.call = 1]
    /\ NoCalls
    /\ dt = NoDraw
    /\ wText = <<>> /\ wMaxWidth = 0 /\ wLines = <<>>

\* the first call has returned and Render is called again: the locals of the
\* first call (err, the position of the walk) are gone, its canvas and its
\* renderer are garbage that the second call never gets a reference to
RenderAgain ==
    /\ pc = "done" /\ again.call = 1
    /\ again' = [call |-> 2, script |-> again.script, rest |-> again.script,
                 first |-> [paints |-> paints, cursorY |-> cursorY, result |-> result]]
    /\ pc' = "start"
    /\ frames' = <<>>
    /\ err' = "nil"
    /\ result' = NoResult
    /\ items' = <<>>
    /\ count' = [leaf |-> 0, list |-> 0, item |-> 0]
    /\ UNCHANGED <<opts, cv, baseSize, cursorY, listStack, itemStack,
                   paints, assigns, pmark, tokens, otherVars>>

NextTwice ==
    \/ RenderBegin
    \/ EnterDocument
    \/ EnterList
    \/ EnterListItem
    \/ EnterHeading
    \/ EnterParagraph
    \/ EnterCodeBlock
    \/ LeaveList
    \/ LeaveListItem
    \/ LeaveBlock
    \/ RenderEnd
    \/ RenderAgain

SpecTwice == InitTwice /\ [][NextTwice]_vars

\* ---- two Render calls at once, with the caller's font set ----
\* Both goroutines got the same RenderOptions, so canvas.fonts.Regular is the
\* same *FontAndFace in both. measureWidth hands its Face to font.Drawer, whose
\* MeasureString asks Face.GlyphAdvance for every rune; the truetype face
\* answers by loading the glyph into its one glyph buffer and then reading
\* AdvanceWidth from that buffer. The two halves are separate steps here, and
\* what the second half reads is whatever the buffer holds by then.
ConcOptions ==
    { [Width |-> 75, Margin |-> 20, BaseFontSize |-> 1600, Theme |-> "dark", Fonts |-> OwnFonts] }

ConcTexts == { <<"a", "b", " ", "c">>, <<"a", " ", "b">> }

Goroutines == {1, 2}

NoState == [line |-> <<>>, lineWidth |-> 0, lineMaxSize |-> 0,
            cursorY |-> 0, painted |-> <<>>, assigns |-> <<>>]

\* a goroutine about to call Render on a one-paragraph document with this text
Caller(text) ==
    [pc |-> "start", text |-> text, cv |-> NoCanvas, baseSize |-> 0, tok |-> NewlineTok,
     segs |-> <<>>, i |-> 1, acc |-> 0, st |-> NoState, paints |-> <<>>, result |-> NoResult]

InitConc ==
    /\ pc = "conc"
    /\ opts \in ConcOptions
    /\ calls \in [Goroutines -> { Caller(text) : text \in ConcTexts }]
    /\ glyphBuf = [AdvanceWidth |-> 0]
    /\ dt = NoDraw
    /\ cv = NoCanvas
    /\ baseSize = 0
    /\ cursorY = 0
    /\ listStack = <<>>
    /\ itemStack = <<>>
    /\ frames = <<>>
    /\ err = "nil"
    /\ result = NoResult
    /\ paints = <<>>
    /\ assigns = <<0>>
    /\ pmark = 0
    /\ items = <<>>
    /\ count = [leaf |-> 0, list |-> 0, item |-> 0]
    /\ tokens = <<>>
    /\ tbl = NoTable
    /\ NoFoot
    /\ again = Once
    /\ wText = <<>> /\ wMaxWidth = 0 /\ wLines = <<>>

ConcStep(c, new) ==
    /\ calls' = [calls EXCEPT ![c] = new]
    /\ UNCHANGED <<pc, renderVars, wrapVars, tbl, footVars>>

\* Render up to the paragraph's drawTokens call: defaults, canvas, renderer,
\* the paragraph's one text token and its segments
ConcBegin(c) ==
    /\ calls[c].pc = "start"
    /\ LET o    == ApplyDefaults(opts)
           cnv  == newCanvas(o.Width, o.Margin, o.Theme, o.Fonts, o.BaseFontSize)
           toks == collectInlineTokens(<< TextNode(calls[c].text, FALSE) >>,
                                       "regular", o.BaseFontSize, "FG", FALSE)
           segs == SelectSeq(splitTextPreserveSpaces(toks[1].text), LAMBDA seg : seg # <<>>)
       IN ConcStep(c, [calls[c] EXCEPT
                          !.pc = "load",
                          !.cv = [f \in DOMAIN cnv \ {"cursorY"} |-> cnv[f]],
                          !.baseSize = o.BaseFontSize,
                          !.tok = toks[1],
                          !.segs = segs,
                          !.st = [NoState EXCEPT !.cursorY = cnv.cursorY]])
    /\ UNCHANGED glyphBuf

\* face.GlyphAdvance, first half: glyphBuf.Load of the next rune of the segment
GlyphLoad(c) ==
    /\ calls[c].pc = "load"
    /\ glyphBuf' = [AdvanceWidth |-> GlyphAdvance("regular", Head(calls[c].segs)[calls[c].i])]
    /\ ConcStep(c, [calls[c] EXCEPT !.pc = "read"])

\* the glyph buffer after flush has measured the words of the line it painted
LastMeasured(line, buf) ==
    IF line = <<>> THEN buf
    ELSE LET w == line[Len(line)].text
         IN [AdvanceWidth |-> GlyphAdvance("regular", w[Len(w)])]

\* face.GlyphAdvance, second half: read AdvanceWidth; after the last rune of
\* the segment measureWidth returns and drawTokens places the segment
GlyphRead(c) ==
    /\ calls[c].pc = "read"
    /\ LET me    == calls[c]
           seg   == Head(me.segs)
           acc   == me.acc + glyphBuf.AdvanceWidth
           width == ScaledWidth(acc, me.cv.fontBase, me.tok.size)
           st    == PlaceSegment(seg, width, me.tok, "regular", me.st,
                                 me.cv.margin, me.cv.w - me.cv.margin, me.cv)
       IN IF me.i < Len(seg)
          THEN /\ ConcStep(c, [me EXCEPT !.pc = "load", !.i = @ + 1, !.acc = acc])
               /\ UNCHANGED glyphBuf
          ELSE /\ ConcStep(c, [me EXCEPT !.pc = IF Len(me.segs) > 1 THEN "load" ELSE "finish",
                                         !.segs = Tail(@), !.i = 1, !.acc = 0, !.st = st])
               /\ glyphBuf' = IF Len(st.painted) > Len(me.st.painted)
                              THEN LastMeasured(me.st.line, glyphBuf) ELSE glyphBuf

\* the last flush of drawTokens, the space after the paragraph, and the crop
ConcEnd(c) ==
    /\ calls[c].pc = "finish"
    /\ LET me     == calls[c]
           st     == flush(me.st, FALSE, me.cv.margin, me.cv.ptSize)
           cursor == st.cursorY + IntPx(me.baseSize, 150)
       IN /\ ConcStep(c, [me EXCEPT !.pc = "done", !.st = st,
                                    !.paints = LinePaints(st.painted, <<>>),
                                    !.result = [img |-> TRUE, err |-> "nil", w |-> me.cv.w,
                                                h |-> UsedHeight(cursor, me.cv.margin)]])
          /\ glyphBuf' = LastMeasured(me.st.line, glyphBuf)

NextConc ==
    \E c \in Goroutines : ConcBegin(c) \/ GlyphLoad(c) \/ GlyphRead(c) \/ ConcEnd(c)

SpecConc == InitConc /\ [][NextConc]_vars

\* ---- Render with any options ----
FontRoles == {"nil", "own"}

\* RenderOptions: numbers below, at and above zero, the zero theme, the
\* built-in themes and a theme of the caller, every choice of font roles
AllOptions ==
    [Width : {-1, 0, 1, 200}, Margin : {-1, 0, 1, 20}, BaseFontSize : {-100, 0, 800, 1800},
     Theme : {"zero", "light", "dark", "custom"},
     Fonts : [Regular : FontRoles, Bold : FontRoles, Mono : FontRoles]]

InitOptions ==
    /\ pc = "start"
    /\ opts \in AllOptions
    /\ cv = NoCanvas
    /\ baseSize = 0
    /\ cursorY = 0
    /\ listStack = <<>>
    /\ itemStack = <<>>
    /\ frames = <<>>
    /\ err = "nil"
    /\ result = NoResult
    /\ paints = <<>>
    /\ assigns = <<0>>
    /\ pmark = 0
    /\ items = <<>>
    /\ count = [leaf |-> 0, list |-> 0, item |-> 0]
    /\ tokens = <<>>
    /\ tbl = NoTable
    /\ NoFoot
    /\ again = Once
    /\ NoCalls
    /\ dt = NoDraw
    /\ wText = <<>> /\ wMaxWidth = 0 /\ wLines = <<>>

\* Render of an empty document
NextOptions ==
    \/ RenderBegin
    \/ EnterDocument
    \/ LeaveBlock
    \/ RenderEnd

SpecOptions == InitOptions /\ [][NextOptions]_vars

\* ---- a list item with inline formatting ----
\* **b** `c` [d](u): bold text, a code span and a link
FormattedInline ==
    << EmphasisNode(2, << TextNode(<<"b">>, FALSE) >>),
       TextNode(<<" ">>, FALSE),
       CodeSpanNode(<<"c">>),
       TextNode(<<" ">>, FALSE),
       LinkNode(<< TextNode(<<"d">>, FALSE) >>) >>

\* the content of a list item: the parser wraps it in a Paragraph in a loose
\* list and in a TextBlock in a tight list; the walker has a case for the
\* first and none for the second
EnterItemContent ==
    /\ LeafAllowed /\ Top.kind = "ListItem"
    /\ IF Top.list.tight
       THEN LeafEntered(OnDefault(CurR, TextBlock, cv, baseSize), "TextBlock", FormattedInline)
       ELSE LeafEntered(OnParagraph(CurR, FormattedInline, cv, baseSize), "Paragraph", FormattedInline)

NextItem ==
    \/ RenderBegin
    \/ EnterDocument
    \/ EnterList
    \/ EnterListItem
    \/ EnterItemContent
    \/ LeaveList
    \/ LeaveListItem
    \/ LeaveBlock
    \/ RenderEnd

SpecItem == Init /\ [][NextItem]_vars

\* ---- a call of drawTokens on its own, one token at a time ----
\* the default base font size, in hundredths of a point
DrawSize == 1600

\* a word, a bold heading-size text of two words, spaces of a token without
\* a font, and a forced break
DrawTokens ==
    { TextTok(<<"a", "a">>, "regular", DrawSize, "FG", FALSE, Tag("content", 0)),
      TextTok(<<"b", " ", "c">>, "bold", 2 * DrawSize, "FG", FALSE, Tag("content", 0)),
      TextTok(<<" ", " ">>, "nil", DrawSize, "FG", FALSE, Tag("content", 0)),
      NewlineTok }

TokenLists == UNION {[1..n -> DrawTokens] : n \in 0..MaxDraw}

\* right - left, in px: narrower than a word, room for one word, for two
DrawWidths == {15, 30, 50}

DrawCanvas == [NoCanvas EXCEPT !.w = 1024, !.margin = 24, !.ptSize = DrawSize,
                               !.fontBase = DrawSize, !.h = 4096 * 2]

InitDraw ==
    /\ pc = "draw"
    /\ cv = DrawCanvas
    /\ \E toks \in TokenLists, width \in DrawWidths :
           dt = [rest |-> toks, left |-> cv.margin, right |-> cv.margin + width,
                 st |-> NoLine(cv.margin)]
    /\ tokens = dt.rest
    /\ wText = <<>> /\ wMaxWidth = 0 /\ wLines = <<>>
    /\ opts = [Width |-> 0, Margin |-> 0, BaseFontSize |-> 0, Theme |-> "zero", Fonts |-> NoFonts]
    /\ baseSize = 0
    /\ cursorY = 0
    /\ listStack = <<>>
    /\ itemStack = <<>>
    /\ frames = <<>>
    /\ err = "nil"
    /\ result = NoResult
    /\ paints = <<>>
    /\ assigns = <<0>>
    /\ pmark = 0
    /\ items = <<>>
    /\ count = [leaf |-> 0, list |-> 0, item |-> 0]
    /\ tbl = NoTable
    /\ NoFoot
    /\ again = Once
    /\ NoCalls

\* one pass of the loop over the tokens
DrawToken ==
    /\ pc = "draw" /\ dt.rest # <<>>
    /\ dt' = [dt EXCEPT !.rest = Tail(@),
                        !.st = DrawOneToken(Head(dt.rest), @, dt.left, dt.right, cv)]
    /\ UNCHANGED <<pc, wText, wMaxWidth, wLines, renderVars, idleVars>>

\* after the loop: the final flush, not forced; a call without tokens has
\* returned before
DrawEnd ==
    /\ pc = "draw" /\ dt.rest = <<>>
    /\ dt' = [dt EXCEPT !.st = IF Len(tokens) = 0 THEN @
                                ELSE flush(@, FALSE, dt.left, cv.ptSize)]
    /\ pc' = "drawn"
    /\ UNCHANGED <<wText, wMaxWidth, wLines, renderVars, idleVars>>

NextDraw == DrawToken \/ DrawEnd

SpecDraw == InitDraw /\ [][NextDraw]_vars

\* ---- Properties of wrapLines (SpecWrap) ----
RECURSIVE RemoveAll(_, _)
RemoveAll(s, chars) ==
    IF s = <<>> THEN <<>>
    ELSE (IF Head(s) \in chars THEN <<>> ELSE <<Head(s)>>) \o RemoveAll(Tail(s), chars)

\* s without its "\n" and without the "\r" of each "\r\n"
RECURSIVE RemoveLineEnds(_)
RemoveLineEnds(s) ==
    IF s = <<>> THEN <<>>
    ELSE IF Head(s) = LF THEN RemoveLineEnds(Tail(s))
    ELSE IF Head(s) = CR /\ Len(s) > 1 /\ s[2] = LF THEN RemoveLineEnds(Tail(Tail(s)))
    ELSE <<Head(s)>> \o RemoveLineEnds(Tail(s))

\* C1: the lines wrapLines returns, concatenated in order, are the input text
\* with its line-break characters removed, nothing added, dropped or
\* reordered; the line breaks are read in each of three ways: every "\n",
\* every "\n" and "\r", every "\n" and "\r\n"
C1_ConcatIsText ==
    pc = "wrapped" =>
        \/ Flatten(wLines) = RemoveAll(wText, {LF})
        \/ Flatten(wLines) = RemoveAll(wText, {LF, CR})
        \/ Flatten(wLines) = RemoveLineEnds(wText)

IsToken(s) == Len(s) > 0 /\ \A i \in 1..Len(s) : ~IsSpace(s[i])

WrapWidth(s) == measureWidth(WrapFont, WrapSize, WrapSize, s)

\* C2: for maxWidth > 0, a text that is one non-whitespace token wider than
\* maxWidth comes back as at least two lines, each at most maxWidth wide,
\* whose concatenation is the token
C2_LongTokenSplit ==
    (pc = "wrapped" /\ wMaxWidth > 0 /\ IsToken(wText) /\ WrapWidth(wText) > wMaxWidth * 100) =>
        /\ Len(wLines) >= 2
        /\ \A i \in 1..Len(wLines) : WrapWidth(wLines[i]) <= wMaxWidth * 100
        /\ Flatten(wLines) = wText

\* ---- Properties of Render (Spec) ----
OpenItemIds == {itemStack[i].id : i \in 1..Len(itemStack)}

MarkerPaintIdx(id) == {i \in 1..Len(paints) : paints[i].tag = Tag("marker", id)}

FramesOf(kind) == {i \in 1..Len(frames) : frames[i].kind = kind}

\* C3: the walk never returns an error and never stops before the document
\* node is left, and Render returns a non-nil image and a nil error
C3_RenderSucceeds ==
    /\ err = "nil"
    /\ pc \in {"walked", "done"} => frames = <<>>
    /\ pc = "done" => (result.img /\ result.err = "nil")

C3_Witness ==
    /\ pc = "done" /\ result.img
    /\ count.list >= 1
    /\ \E i \in 1..Len(paints) : paints[i].tag.t = "warning"

\* C4: the marker of every list item is painted exactly once between the
\* item's begin and its end: at most once while the item is open, exactly
\* once when it has ended
C4_MarkerOnce ==
    \A id \in 1..count.item :
        IF id \in OpenItemIds
        THEN Cardinality(MarkerPaintIdx(id)) <= 1
        ELSE Cardinality(MarkerPaintIdx(id)) = 1

C4_Witness ==
    \E i \in 1..Len(paints) - 1 :
        /\ paints[i].tag.t = "marker"
        /\ paints[i].tag.id \notin OpenItemIds
        /\ paints[i + 1].kind = "codebg"
        /\ paints[i].tag.id \in {paints[i + 1].items[k] : k \in 1..Len(paints[i + 1].items)}

\* C5: whatever is painted inside a list item (its own blocks and those of
\* nested lists) is painted after the item's marker, and the marker is not
\* painted below it
C5_MarkerBeforeContent ==
    \A j \in 1..Len(paints) :
        \A k \in 1..Len(paints[j].items) :
            LET id == paints[j].items[k]
            IN paints[j].tag # Tag("marker", id) =>
                   \E i \in 1..(j - 1) :
                       paints[i].tag = Tag("marker", id) /\ paints[i].y <= paints[j].y

\* C6 as claimed: no assignment of a handler gives cursorY a smaller value
\* than the one it held just before
C6_CursorMonotone ==
    \A i \in 1..(Len(assigns) - 1) : assigns[i] <= assigns[i + 1]

\* C6: no handler leaves cursorY smaller than it found it; inside a handler
\* cursorY never goes below the value at the handler's start, and an
\* assignment that lowers it restores a value it held earlier in the handler
\* (the restore of drawListMarker)
C6_CursorNeverBelowEntry ==
    [][ /\ cursorY' >= cursorY
        /\ \A i \in 1..Len(assigns') : assigns'[i] >= cursorY
        /\ \A i \in 1..(Len(assigns') - 1) :
              assigns'[i + 1] < assigns'[i] => \E j \in 1..i : assigns'[j] = assigns'[i + 1] ]_vars

C6_Witness ==
    /\ pc = "walk"
    /\ \E i \in 1..(Len(assigns) - 1) : assigns[i + 1] < assigns[i]
    /\ cursorY > assigns[1]

\* value of a marker "<digits>.", -1 for any other text
DigitVal(ch) == CASE ch = "0" -> 0 [] ch = "1" -> 1 [] ch = "2" -> 2 [] ch = "3" -> 3
                  [] ch = "4" -> 4 [] ch = "5" -> 5 [] ch = "6" -> 6 [] ch = "7" -> 7
                  [] ch = "8" -> 8 [] ch = "9" -> 9 [] OTHER -> -1

RECURSIVE ParseDigits(_, _)
ParseDigits(s, acc) ==
    IF s = <<>> THEN acc
    ELSE IF DigitVal(Head(s)) < 0 THEN -1
    ELSE ParseDigits(Tail(s), acc * 10 + DigitVal(Head(s)))

ParseMarker(m) ==
    IF Len(m) < 2 \/ m[Len(m)] # "." THEN -1 ELSE ParseDigits(SubSeq(m, 1, Len(m) - 1), 0)

\* C7: the k-th item of an ordered list has the marker "<s+k-1>." with s the
\* list's start (1 when not positive), whatever lists are nested in between;
\* an item of an unordered list has the bullet; the marker painted for an
\* item is the item's marker
C7_OrderedMarkers ==
    /\ \A i \in 1..Len(items) :
          LET it == items[i]
              s  == IF it.shape.start <= 0 THEN 1 ELSE it.shape.start
          IN IF it.shape.ordered THEN ParseMarker(it.marker) = s + it.k - 1
             ELSE it.marker = Bullet
    /\ \A j \in 1..Len(paints) :
          paints[j].tag.t = "marker" => paints[j].text = items[paints[j].tag.id].marker

C7_Witness ==
    \E a, b, c \in 1..Len(items) :
        /\ a < b /\ b < c
        /\ items[a].list = items[c].list /\ items[b].list # items[a].list
        /\ items[a].shape.ordered /\ items[b].shape.ordered
        /\ items[b].depth > items[a].depth

RECURSIVE FrameItemIds(_)
FrameItemIds(fs) ==
    IF fs = <<>> THEN <<>>
    ELSE (IF Head(fs).kind = "ListItem" THEN <<Head(fs).id>> ELSE <<>>) \o FrameItemIds(Tail(fs))

\* C9: the list stack is as deep as the number of List nodes entered and not
\* left, the item stack holds exactly the ListItem nodes entered and not
\* left, and both are empty when the walk has returned
C9_StackDepths ==
    /\ Len(listStack) = Cardinality(FramesOf("List"))
    /\ Len(itemStack) = Cardinality(FramesOf("ListItem"))
    /\ ItemIds(itemStack) = FrameItemIds(frames)
    /\ pc \in {"walked", "done"} => (listStack = <<>> /\ itemStack = <<>>)

C9_Witness ==
    /\ pc = "done"
    /\ count.list >= 2 /\ count.item >= 2
    /\ \E i \in 1..Len(items) : items[i].depth >= 2

\* the state right after the walker entered a block of an unhandled kind
AtUnsupported == pc = "walk" /\ Len(frames) > 0 /\ Top.kind = "Unsupported"

NewPaints == SubSeq(paints, pmark + 1, Len(paints))

IsWarning(p) == p.tag.t = "warning"

WarnPaints == SelectSeq(NewPaints, IsWarning)

RECURSIVE PaintText(_)
PaintText(ps) == IF ps = <<>> THEN <<>> ELSE Head(ps).text \o PaintText(Tail(ps))

\* what C10 says of an unhandled block apart from the number of lines: the
\* text "unsupported: <kind>" is painted in the warning colour, nothing else
\* but the pending item marker is painted, its children are skipped, no node
\* is ever open below it, no list context is pushed and the walk goes on
UnsupportedHandled ==
    /\ \A i \in 1..(Len(frames) - 1) : frames[i].kind # "Unsupported"
    /\ AtUnsupported =>
          /\ Len(WarnPaints) >= 1
          /\ PaintText(WarnPaints) \in {UnsupportedPrefix \o HTMLBlock, UnsupportedPrefix \o TextBlock}
          /\ \A i \in 1..Len(WarnPaints) : WarnPaints[i].color = "Warning"
          /\ \A i \in 1..Len(NewPaints) : NewPaints[i].tag.t \in {"warning", "marker"}
          /\ Top.status = "skip"
          /\ Len(listStack) = Cardinality(FramesOf("List"))
          /\ err = "nil"

WarnLines == {WarnPaints[i].y : i \in 1..Len(WarnPaints)}

\* C10 as claimed: the warning is painted as one line
C10_OneWarningLine ==
    /\ UnsupportedHandled
    /\ AtUnsupported => Cardinality(WarnLines) = 1

\* C10: the warning is one token laid out by drawTokens: one line when it
\* fits between the left margin in force and the right margin, otherwise
\* broken at its two spaces into at most three lines
C10_WarningToken ==
    /\ UnsupportedHandled
    /\ AtUnsupported =>
          /\ Cardinality(WarnLines) <= 3
          /\ measureWidth("regular", cv.fontBase, (baseSize * 90) \div 100, PaintText(WarnPaints))
                 <= (cv.w - cv.margin - WarnPaints[1].left) * 100
             => Cardinality(WarnLines) = 1

C10_Witness ==
    /\ AtUnsupported
    /\ Len(listStack) >= 1
    /\ Cardinality(WarnLines) = 1
    /\ Len(NewPaints) > Len(WarnPaints)

\* ---- Properties of the image Render returns (Spec) ----
\* Render has returned from a document whose only block is one unsupported one
OnlyUnsupported ==
    /\ pc = "done"
    /\ count = [leaf |-> 1, list |-> 0, item |-> 0]
    /\ Len(paints) > 0
    /\ \A i \in 1..Len(paints) : paints[i].tag.t = "warning"

PaintLines == {paints[i].y : i \in 1..Len(paints)}

\* C11 as claimed: a document that is one unsupported block renders without
\* error to an image strictly taller than margin + 50 that holds a
\* warning-coloured line
C11_TallerThanFloor ==
    OnlyUnsupported =>
        /\ result.img /\ result.err = "nil"
        /\ result.h > cv.margin + 50
        /\ \E i \in 1..Len(paints) : paints[i].color = "Warning" /\ paints[i].y < result.h

\* C11: a document that is one unsupported block renders without error to an
\* image that holds the warning-coloured line; its height is the larger of
\* margin + 50 and 2*margin + the warning's lines + int(base size), so it is
\* strictly taller than margin + 50 exactly when margin + lines + int(base
\* size) exceeds 50
C11_WarningImage ==
    OnlyUnsupported =>
        LET content == Cardinality(PaintLines) * LineHeightOf((baseSize * 90) \div 100)
                       + baseSize \div 100
        IN /\ result.img /\ result.err = "nil"
           /\ \A i \in 1..Len(paints) : paints[i].color = "Warning" /\ paints[i].y < result.h
           /\ result.h = MaxOf(2 * cv.margin + content, cv.margin + 50)
           /\ result.h > cv.margin + 50 <=> cv.margin + content > 50

C11_Witness == OnlyUnsupported /\ result.h > cv.margin + 50

\* C12: the cursor and every painted line stay inside the canvas buffer, and
\* the image returned is not taller than the buffer it is copied from
C12_WithinBuffer ==
    pc \in {"walk", "walked", "done"} =>
        /\ cursorY <= cv.h
        /\ \A i \in 1..Len(paints) : paints[i].y >= 0 /\ paints[i].y < cv.h
        /\ pc = "done" /\ result.img => result.h <= cv.h

\* C13: the image has the configured width (1024 when none is set) and the
\* height max(final cursor + margin, margin + 50), the margin being 48 when
\* none is set; so it is never lower than margin + 50
C13_CropHeight ==
    pc = "done" =>
        LET width  == IF opts.Width > 0 THEN opts.Width ELSE 1024
            margin == IF opts.Margin > 0 THEN opts.Margin ELSE 48
        IN /\ result.img
           /\ result.w = width
           /\ result.h = MaxOf(cursorY + margin, margin + 50)
           /\ result.h >= margin + 50

\* the empty document
C13_Witness ==
    /\ pc = "done" /\ NodeCount = 0 /\ paints = <<>>
    /\ result.h = cv.margin + 50

\* ---- Properties of renderTable (SpecTable) ----
\* the pieces of a line between its "|" characters
RECURSIVE SplitBar(_, _)
SplitBar(s, cur) ==
    IF s = <<>> THEN <<cur>>
    ELSE IF Head(s) = "|" THEN <<cur>> \o SplitBar(Tail(s), <<>>)
    ELSE SplitBar(Tail(s), Append(cur, Head(s)))

AllOf(s, ch) == \A i \in 1..Len(s) : s[i] = ch

\* the largest number of cells of a row, the header included
TableColumns(t) ==
    LET lens == {Len(t.header)} \cup {Len(t.rows[k]) : k \in 1..Len(t.rows)}
    IN CHOOSE m \in lens : \A x \in lens : x <= m

\* the pieces ps of a line "| c1 | c2 | ... | " with n cells, cell i being
\* cells[i] (nothing when the row has no cell i) followed by spaces only
IsRowLine(ps, cells, n) ==
    /\ Len(ps) = n + 2
    /\ ps[1] = <<>> /\ ps[n + 2] = <<" ">>
    /\ \A i \in 1..n :
          LET p    == ps[i + 1]
              cell == IF i <= Len(cells) THEN cells[i] ELSE <<>>
          IN /\ Len(p) >= MaxOf(Len(cell) + 2, 3)
             /\ p[1] = " "
             /\ SubSeq(p, 2, Len(cell) + 1) = cell
             /\ AllOf(SubSeq(p, Len(cell) + 2, Len(p)), " ")

IsSeparatorLine(ps, n) ==
    /\ Len(ps) = n + 2
    /\ ps[1] = <<>> /\ ps[n + 2] = <<" ">>
    /\ \A i \in 1..n : /\ Len(ps[i + 1]) >= 3
                        /\ ps[i + 1][1] = " " /\ ps[i + 1][Len(ps[i + 1])] = " "
                        /\ AllOf(SubSeq(ps[i + 1], 2, Len(ps[i + 1]) - 1), "-")

\* C14: renderTable emits one token line per body row, in order, after a
\* header line and a separator line when the header has cells and only then;
\* every row line has as many cells as the longest row, holds the row's cell
\* texts at their columns and space-padded empty cells for the missing ones,
\* and the columns of all lines are equally wide
C14_TableLines ==
    pc = "tabled" =>
        LET n   == TableColumns(tbl)
            hdr == IF Len(tbl.header) > 0 THEN 2 ELSE 0
            ps  == [k \in 1..Len(tokens) |-> SplitBar(tokens[k].text, <<>>)]
        IN /\ Len(tokens) = Len(tbl.rows) + hdr
           /\ hdr = 2 => IsRowLine(ps[1], tbl.header, n) /\ IsSeparatorLine(ps[2], n)
           /\ \A k \in 1..Len(tbl.rows) : IsRowLine(ps[k + hdr], tbl.rows[k], n)
           /\ \A k \in 1..Len(tokens) :
                 /\ ~tokens[k].newline
                 /\ \A i \in 1..(n + 2) : Len(ps[k][i]) = Len(ps[1][i])

\* a header of two cells over a row of one cell and a row of none
C14_Witness ==
    /\ pc = "tabled"
    /\ Len(tbl.header) = 2 /\ Len(tbl.rows) = 2
    /\ Len(tbl.rows[1]) = 1 /\ Len(tbl.rows[2]) = 0
    /\ Len(tokens) = 4

\* ---- Properties of the footnote registry (SpecFoot) ----
\* the trimmed destinations of a sequence of references, each at its first
\* occurrence only
RECURSIVE FirstOccurrences(_, _)
FirstOccurrences(rs, seen) ==
    IF rs = <<>> THEN seen
    ELSE LET d == TrimSpace(Head(rs).dest)
         IN FirstOccurrences(Tail(rs),
                             IF \E i \in 1..Len(seen) : seen[i] = d THEN seen ELSE Append(seen, d))

IsLinkRef(r) == r.kind = "link"

IsImageRef(r) == r.kind = "image"

ImagesOf(kids) == { kids[k] : k \in { j \in 1..Len(kids) : kids[j].kind = "Image" } }

\* the text of the nodes of an alt text
RECURSIVE AltText(_)
AltText(kids) ==
    IF kids = <<>> THEN <<>> ELSE Head(kids).text \o AltText(Head(kids).kids) \o AltText(Tail(kids))

\* the fallback for an image: its alt text, or the raw destination when that is empty
FallbackText(image) == IF AltText(image.kids) # <<>> THEN AltText(image.kids) ELSE image.text

HasTextToken(toks, text) ==
    \E k \in 1..Len(toks) : ~toks[k].newline /\ toks[k].text = text

\* the step taken is the paragraph handler entered for a paragraph with children kids
ParagraphStep(kids) ==
    LeafAllowed /\ LeafEntered(OnParagraph(CurR, kids, cv, baseSize), "Paragraph", kids)

\* C17: a paragraph with an image that is not resolved is handled without an
\* error, the walk goes on, and among the tokens handed to drawTokens there is a
\* text token with the image's fallback text
C17_FallbackToken ==
    [][\A kids \in ImageSamples :
          ParagraphStep(kids) =>
             /\ err' = "nil" /\ pc' = "walk"
             /\ \A image \in ImagesOf(kids) : HasTextToken(tokens', FallbackText(image))]_vars

Alone(text) ==
    LET o   == ApplyDefaults(opts)
        cnv == newCanvas(o.Width, o.Margin, o.Theme, o.Fonts, o.BaseFontSize)
        R0  == [cursorY |-> cnv.cursorY, listStack |-> <<>>, itemStack |-> <<>>,
                paints |-> <<>>, assigns |-> <<cnv.cursorY>>, tokens |-> <<>>]
        res == OnParagraph(R0, << TextNode(text, FALSE) >>, cnv, o.BaseFontSize)
    IN [paints |-> res.R.paints,
        result |-> [img |-> TRUE, err |-> "nil", w |-> cnv.w,
                    h |-> UsedHeight(res.R.cursorY, cnv.margin)]]

\* C19: each of two calls running at once with the same font set returns the
\* image it returns when it runs alone
C19_SameAsAlone ==
    \A c \in DOMAIN calls :
        calls[c].pc = "done" =>
            /\ calls[c].paints = Alone(calls[c].text).paints
            /\ calls[c].result = Alone(calls[c].text).result

\* a call that ran while the other had not started returns what it returns alone
C19_Undisturbed ==
    \A c \in DOMAIN calls :
        (calls[c].pc = "done" /\ \A d \in DOMAIN calls \ {c} : calls[d].pc = "start") =>
            /\ calls[c].paints = Alone(calls[c].text).paints
            /\ calls[c].result = Alone(calls[c].text).result

\* ---- Defaults (SpecOptions) ----
FontUsed(role) == IF role = "nil" THEN "bundled" ELSE role

\* C20: once Render has made its canvas and renderer, a non-positive width is
\* 1024, a non-positive margin 48, a non-positive base font size 16, a zero
\* theme the light theme, each nil font role the bundled font, and every
\* option the caller set is the value in use; the image returned has that width
C20_Defaults ==
    pc # "start" =>
        /\ cv.w = (IF opts.Width > 0 THEN opts.Width ELSE 1024)
        /\ cv.margin = (IF opts.Margin > 0 THEN opts.Margin ELSE 48)
        /\ baseSize = (IF opts.BaseFontSize > 0 THEN opts.BaseFontSize ELSE 1600)
        /\ cv.ptSize = baseSize
        /\ cv.th = (IF opts.Theme # "zero" THEN opts.Theme ELSE "light")
        /\ cv.fonts = [Regular |-> FontUsed(opts.Fonts.Regular),
                       Bold    |-> FontUsed(opts.Fonts.Bold),
                       Mono    |-> FontUsed(opts.Fonts.Mono)]
        /\ pc = "done" => (result.img /\ result.w = cv.w)

\* Render has returned for options with some set and some unset: the width
\* and the bold font are defaults, the margin, the theme and the regular font
\* are the caller's
C20_Witness ==
    /\ pc = "done"
    /\ opts.Width = 0 /\ result.w = 1024
    /\ opts.Margin = 20 /\ cv.margin = 20
    /\ opts.Theme = "custom" /\ cv.th = "custom"
    /\ opts.Fonts.Regular = "own" /\ cv.fonts.Regular = "own"
    /\ opts.Fonts.Bold = "nil" /\ cv.fonts.Bold = "bundled"

\* ---- Inline formatting in a list item (SpecItem) ----
\* the handler of the content block of a list item has just returned
AtItemContent == pc = "walk" /\ Len(frames) > 0 /\ Top.kind \in {"Paragraph", "TextBlock"}

IsLinkLabel(p) == p.kind = "word" /\ p.text = <<"d">> /\ p.color = "Link"

IsItemText(p) == p.kind = "word" /\ p.text \in {<<"b">>, <<"c">>, <<"d">>}

\* C21: the content of a list item, wrapped in a paragraph or in a text block,
\* is drawn with its styles: its three words are painted, the bold one in the
\* bold font, the code span in the mono font, the link label in the link colour
C21_ItemInlineStyles ==
    AtItemContent =>
        /\ Len(SelectSeq(NewPaints, IsItemText)) = 3
        /\ \E k \in 1..Len(NewPaints) : IsLinkLabel(NewPaints[k])
        /\ \E k \in 1..Len(NewPaints) : NewPaints[k].text = <<"b">> /\ NewPaints[k].font = "bold"
        /\ \E k \in 1..Len(NewPaints) : NewPaints[k].text = <<"c">> /\ NewPaints[k].font = "mono"

\* in a loose list the item's content is a paragraph and is drawn with its styles
C21_LooseItem ==
    (AtItemContent /\ Top.kind = "Paragraph") =>
        /\ Len(SelectSeq(NewPaints, IsItemText)) = 3
        /\ \E k \in 1..Len(NewPaints) : IsLinkLabel(NewPaints[k])

\* ---- Whitespace, maxWidth <= 0 and the empty text in wrapLines (SpecWrap) ----
OneHardLine(s) == \A i \in 1..Len(s) : s[i] \notin {LF, CR}

\* C22: a whitespace token never begins an output line after a wrap: for a
\* text of one hard line and maxWidth > 0, every output line after the first
\* begins with a character that is not whitespace
C22_SpaceNeverWraps ==
    (pc = "wrapped" /\ wMaxWidth > 0 /\ OneHardLine(wText)) =>
        \A i \in 2..Len(wLines) : wLines[i] # <<>> /\ ~IsSpace(wLines[i][1])

\* C23: with maxWidth <= 0 nothing is wrapped: the output lines are the hard
\* lines of the text
C23_NoWrapping ==
    (pc = "wrapped" /\ wMaxWidth <= 0) => wLines = ScanLines(wText, <<>>)

\* C24: the empty text comes back as one empty line
C24_EmptyText ==
    (pc = "wrapped" /\ wText = <<>>) => wLines = << <<>> >>

\* ---- Forced line breaks in drawTokens (SpecDraw) ----
\* the step of the token loop that handles a forced break
AtBreak == pc = "draw" /\ dt.rest # <<>> /\ Head(dt.rest).newline

LastLine(st) == st.painted[Len(st.painted)]

\* the calls, taken one token at a time, end as drawTokens does
DrawnAsDrawTokens ==
    pc = "drawn" => dt.st = drawTokens(tokens, dt.left, dt.right, cv, cv.margin)

\* C25: a forced line-break token ends the pending line at once: a pending
\* line with segments is painted and the cursor advances by that line's
\* height; on an empty pending line nothing is painted and the cursor
\* advances by one default line height int(1.5*ptSize + 0.5)
C25_BreakEndsLine ==
    [][ AtBreak =>
          /\ dt'.st.line = <<>>
          /\ IF dt.st.line = <<>>
             THEN /\ dt'.st.painted = dt.st.painted
                  /\ dt'.st.cursorY = dt.st.cursorY + LineHeightOf(cv.ptSize)
             ELSE /\ Len(dt'.st.painted) = Len(dt.st.painted) + 1
                  /\ SubSeq(dt'.st.painted, 1, Len(dt.st.painted)) = dt.st.painted
                  /\ LastLine(dt'.st).words = dt.st.line
                  /\ LastLine(dt'.st).y = dt.st.cursorY
                  /\ LastLine(dt'.st).height = LineHeightOf(dt.st.lineMaxSize)
                  /\ dt'.st.cursorY = dt.st.cursorY + LastLine(dt'.st).height ]_vars

\* C25, second part: a call of k break tokens and nothing else paints
\* nothing and leaves the cursor k default line heights lower
C25_BlankLines ==
    (pc = "drawn" /\ \A i \in 1..Len(tokens) : tokens[i].newline) =>
        /\ dt.st.painted = <<>>
        /\ dt.st.cursorY = cv.margin + Len(tokens) * LineHeightOf(cv.ptSize)

\* a break after a pending line, then two breaks on the empty line
C25_Witness ==
    /\ pc = "drawn" /\ Len(tokens) = 4
    /\ ~tokens[1].newline /\ \A i \in 2..4 : tokens[i].newline
    /\ Len(dt.st.painted) = 1
    /\ dt.st.cursorY = cv.margin + LastLine(dt.st).height + 2 * LineHeightOf(cv.ptSize)

\* ---- One line-height multiplier (Spec) ----
IsCodeLine(p) == p.kind = "codeline"

\* C26: the lines of a code block are one drawTokens line height apart, the
\* height int(1.5*size + 0.5) of a token line of the code's font size
C26_OneMultiplier ==
    \A i \in 1..(Len(paints) - 1) :
        (IsCodeLine(paints[i]) /\ IsCodeLine(paints[i + 1])) =>
            paints[i + 1].y - paints[i].y = LineHeightOf(IntMul(baseSize, 95, 100))

\* ---- Greedy fit of drawTokens (SpecDraw) ----
NonSpace(word) == ~IsSpace(word.text[1])

WordWidth(word) == measureWidth(word.font, cv.fontBase, word.size, word.text)

RECURSIVE WordsWidth(_)
WordsWidth(words) == IF words = <<>> THEN 0 ELSE WordWidth(Head(words)) + WordsWidth(Tail(words))

\* the words of a line without its trailing whitespace
RECURSIVE LineBody(_)
LineBody(words) ==
    IF words = <<>> \/ NonSpace(words[Len(words)]) THEN words
    ELSE LineBody(SubSeq(words, 1, Len(words) - 1))

\* the non-whitespace segments of the text tokens, styled, in token order
RECURSIVE Segments(_)
Segments(toks) ==
    IF toks = <<>> THEN <<>>
    ELSE LET tok == Head(toks)
             fnt == IF tok.font = "nil" THEN "regular" ELSE tok.font
             segs == splitTextPreserveSpaces(tok.text)
         IN (IF tok.newline THEN <<>>
             ELSE SelectSeq([i \in 1..Len(segs) |-> styledWord(segs[i], fnt, tok)], NonSpace))
            \o Segments(Tail(toks))

RECURSIVE PaintedWords(_)
PaintedWords(painted) ==
    IF painted = <<>> THEN <<>>
    ELSE SelectSeq(Head(painted).words, NonSpace) \o PaintedWords(Tail(painted))

DrawMaxWidth == (dt.right - dt.left) * 100

\* C27: a painted line with two or more non-whitespace segments is, up to
\* its last such segment, no wider than right-left; a line is wider than
\* right-left only by trailing whitespace or when its one non-whitespace
\* segment is wider; every non-whitespace segment is painted once, in order
C27_GreedyFit ==
    /\ \A i \in 1..Len(dt.st.painted) :
         LET ln   == dt.st.painted[i]
             body == LineBody(ln.words)
             n    == Len(SelectSeq(ln.words, NonSpace))
         IN /\ ln.width = WordsWidth(ln.words)
            /\ n >= 2 => WordsWidth(body) <= DrawMaxWidth
            /\ ln.width > DrawMaxWidth =>
                   \/ WordsWidth(body) <= DrawMaxWidth
                   \/ n = 1 /\ WordWidth(body[Len(body)]) > DrawMaxWidth
    /\ pc = "drawn" => PaintedWords(dt.st.painted) = Segments(tokens)

\* a call that painted two lines or more, one of them of two words and
\* past the right edge by its trailing spaces
C27_Witness ==
    /\ pc = "drawn"
    /\ \E i \in 1..Len(dt.st.painted) :
         /\ Len(SelectSeq(dt.st.painted[i].words, NonSpace)) = 2
         /\ dt.st.painted[i].width > DrawMaxWidth
    /\ Len(dt.st.painted) >= 2

\* ---- Table lines as a character grid (SpecTable) ----
\* 2 + the sum over the columns i..n of (column width + 3)
RECURSIVE GridLength(_, _, _)
GridLength(t, i, n) ==
    IF i > n THEN 2 ELSE ColumnWidth(t.header, t.rows, i) + 3 + GridLength(t, i + 1, n)

\* every line of the table has the characters of the grid
C28_SameLength ==
    pc = "tabled" =>
        \A k \in 1..Len(tokens) : Len(tokens[k].text) = GridLength(tbl, 1, TableColumns(tbl))

\* C28: the header line, the separator line and the row lines of a table
\* have the same number of characters, 2 + the sum of (column width + 3),
\* and are painted in the mono font at one point size
C28_CharacterGrid ==
    pc = "tabled" =>
        \A k \in 1..Len(tokens) :
            /\ Len(tokens[k].text) = GridLength(tbl, 1, TableColumns(tbl))
            /\ tokens[k].font = "mono"
            /\ tokens[k].size = tokens[1].size

\* without the header line, the lines are in the mono font
C28_RowsMono ==
    pc = "tabled" =>
        \A k \in 1..Len(tokens) :
            /\ (k > 1 \/ Len(tbl.header) = 0) => tokens[k].font = "mono"
            /\ (k > 2 \/ Len(tbl.header) = 0) => tokens[k].size = IntMul(baseSize, 95, 100)

\* ---- The bar of a block quote (Spec) ----
\* the walker has just handled a block quote
AtQuote == pc = "walk" /\ Len(frames) > 0 /\ Top.kind = "Blockquote"

IsQuoteBar(p) == p.kind = "quotebar"

IsQuoted(x) == x.tag.t \notin {"marker", "shape"}

\* C29: a block quote with a token paints one bar, after its text, from
\* startY+2 down to the cursor reached after the quote, so the bar starts no
\* lower than the first quoted line and covers every quoted line; a block
\* quote without tokens paints no bar and leaves the cursor where it was
C29_QuoteBar ==
    AtQuote =>
        LET startY == assigns[1]
            bars   == SelectSeq(NewPaints, IsQuoteBar)
            lines  == SelectSeq(NewPaints, IsQuoted)
        IN IF SelectSeq(tokens, IsQuoted) # <<>>
           THEN /\ Len(bars) = 1
                /\ IsQuoteBar(NewPaints[Len(NewPaints)])
                /\ bars[1].y = startY + 2
                /\ bars[1].size = cursorY - startY - 2
                /\ bars[1].y + bars[1].size = cursorY
                /\ \A i \in 1..Len(lines) :
                      bars[1].y <= lines[i].y /\ lines[i].y < bars[1].y + bars[1].size
           ELSE bars = <<>> /\ lines = <<>> /\ cursorY = startY

\* a quote with text as the first block of a list item: marker, text, bar
C29_Witness ==
    /\ AtQuote
    /\ Len(NewPaints) >= 3
    /\ NewPaints[1].tag.t = "marker"
    /\ \E i \in 2..(Len(NewPaints) - 1) : IsQuoted(NewPaints[i])
    /\ IsQuoteBar(NewPaints[Len(NewPaints)])

\* a quote without text in a list item: the marker alone is painted
C29_EmptyInItem ==
    AtQuote /\ Len(NewPaints) = 1 /\ NewPaints[1].tag.t = "marker" /\ cursorY = assigns[1]

====
